---- MODULE Spec2Model ----
(***************************************************************************)
(* AutoCV: the dashboard's background-task record (src/web/app.py), the    *)
(* scraper's parallel description fetch and browser session                *)
(* (src/scraper/linkedin_scraper.py), the content personalizer             *)
(* (src/ai/cv_personalizer.py) and the PDF step of the document renderer   *)
(* (src/core/cv_generator.py).                                             *)
(*                                                                         *)
(* Each component is a state machine of its own over its own variables;    *)
(* the specification of one component leaves the others' variables alone.  *)
(***************************************************************************)
EXTENDS Integers, Sequences, FiniteSets, TLC

VARIABLES
    \* ---- dashboard (app.py): app_state and the threads that write it
    current_task,     \* app_state["current_task"]: "None", "search", "generate"
    task_progress,    \* app_state["task_progress"]
    task_message,     \* app_state["task_message"]
    task_logs,        \* app_state["task_logs"]
    loop,             \* the event-loop thread: the start handler it is running
    pending,          \* background tasks added by a handler, not yet on a thread
    workers,          \* the worker threads running _sync_search / _sync_generate
    last_response,    \* the response to the last start request
    \* ---- LinkedInScraper._fetch_descriptions_parallel
    jobs,             \* the postings passed in: dicts the workers write to
    driver,           \* self.driver: "None" or "open"
    max_workers,      \* self.max_workers
    fut,              \* per posting, where its future's fetch_description is
    http_gets,        \* per posting, the requests.get calls made for it
    http_outcome,     \* per posting, what its requests.get gave
    results,          \* the list results: postings in completion order
    returned,         \* the list returned: postings (as indices into jobs)
    fpc,              \* the calling thread: "pool", "returned", "raised"
    \* ---- one search operation: its caller and LinkedInScraper.search_jobs
    caller,           \* "cli" (main.py search) or "dashboard" (_sync_search)
    spc,              \* where the operation is
    selenium_available,    \* SELENIUM_AVAILABLE
    use_existing_browser,  \* self.use_existing_browser
    limit,            \* the limit argument
    njobs,            \* len(jobs), the postings collected so far
    page,             \* the results page being read
    opened,           \* a browser session was created during the operation
    close_called,     \* scraper.close() was called
    saved,            \* how many of the postings, in order, _save_job has written
    added,            \* postings appended in the current pass of the while loop
    mode,             \* "fast", "normal" or "not_loaded": how descriptions are fetched
    nourl,            \* how many of the postings have an empty url
    described,        \* how many of the postings have a description that is not empty
    caught,           \* the except clause of search_jobs ran
    \* ---- CVPersonalizer.personalize_cv
    ppc,              \* "run", "returned" or "raised"
    stage,            \* the step of personalize_cv being run, 1..7
    reanalyzed,       \* the step has made its own analyze_job call
    generate_cover_letter,  \* the argument of that name
    job_analysis,     \* the record analyze_job returned at step 1
    calls,            \* the gateway calls issued, in order, by prompt
    failed_at,        \* the number of the gateway call that raised, or 0
    result,           \* the record returned, or "None"
    profile,          \* the profile passed in
    profile_before,   \* the profile as it was when personalize_cv was called
    experience,       \* what optimize_experience returned, or "None"
    \* ---- CVGenerator.generate
    gpc,              \* position in generate / _generate_pdf
    output_format,    \* the argument of that name: "pdf" or "html"
    include_cover_letter,   \* the argument of that name
    cover_letter,     \* personalized_cv.get('cover_letter') is not empty
    pdf_generated,    \* the local of _generate_pdf
    tried,            \* the converters tried, in order
    files,            \* the files written to the output directory
    glog,             \* the messages logged by _generate_pdf
    gresult,          \* the dict generate returns: [cv, cover_letter]
    profile_exists,   \* the profile file is there
    job_id,           \* the argument of that name
    stored,           \* the identifiers of the postings in data/ofertas
    job,              \* what _load_job returned: "None", "stored" or "test"
    gerror,           \* the exception raised, or "None"
    gateway_used,     \* personalize_cv has been called
    \* ---- OllamaClient
    gw_op,            \* the method being run, or "None"
    gw_sent,          \* HTTP requests sent by the method being run
    gw_history,       \* the calls that ended: [op, net, sent, raised, value]
    \* ---- CVPersonalizer.calculate_match_score
    mpc,              \* "call", "returned" or "raised"
    m_response,       \* the answer of the language model
    m_result,         \* the record returned, or "None"
    \* ---- LinkedInScraper._extract_job_from_card
    extracted,        \* the postings extracted so far, in order
    clock,            \* the time, as the number of cards seen
    \* ---- ProfileManager.validate_profile, Experience.duration_months
    pm_pc,            \* "start", "validated" or "measured"
    v_profile,        \* the document validate_profile was given
    v_result,         \* what validate_profile did: [raised, issues]
    d_entry,          \* the entry whose duration was read
    d_months,         \* the value of duration_months
    \* ---- LinkedInScraper.login
    lpc,              \* position in login
    l_selenium,       \* SELENIUM_AVAILABLE
    l_credentials,    \* where email and password come from, or "None"
    is_logged_in,     \* self.is_logged_in
    l_returns,        \* what the calls of login returned, or "raised"
    \* ---- LinkedInScraper._extract_job_from_card, the fields
    cpc,              \* "start" or "extracted"
    card,             \* the card given to _extract_job_from_card
    posting,          \* what it returned
    \* ---- LinkedInScraper._get_job_description
    bpc,              \* "start", "returned" or "caught"
    b_page,           \* the page the browser loaded
    b_description     \* the text returned

dashVars == <<current_task, task_progress, task_message, task_logs,
              loop, pending, workers, last_response>>

fetchVars == <<jobs, driver, max_workers, fut, http_gets, http_outcome,
               results, returned, fpc>>

\* the parallel fetch's variables but self.driver
fetchOnlyVars == <<jobs, max_workers, fut, http_gets, http_outcome,
                   results, returned, fpc>>

searchVars == <<caller, spc, selenium_available, use_existing_browser,
                limit, njobs, page, opened, close_called, saved, added,
                mode, nourl, described, caught>>

persVars == <<ppc, stage, reanalyzed, generate_cover_letter, job_analysis,
              calls, failed_at, result, profile, profile_before, experience>>

\* the profile, which no step of personalize_cv assigns to
persInput == <<profile, profile_before>>

genVars == <<gpc, output_format, include_cover_letter, cover_letter,
             pdf_generated, tried, files, glog, gresult,
             profile_exists, job_id, stored, job, gerror, gateway_used>>

gwVars == <<gw_op, gw_sent, gw_history>>

matchVars == <<mpc, m_response, m_result>>

idVars == <<extracted, clock>>

pmVars == <<pm_pc, v_profile, v_result, d_entry, d_months>>

loginVars == <<lpc, l_selenium, l_credentials, is_logged_in, l_returns>>

cardVars == <<cpc, card, posting>>

descVars == <<bpc, b_page, b_description>>

vars ==
    <<dashVars, fetchVars, searchVars, persVars, genVars, gwVars,
      matchVars, idVars, pmVars, loginVars, cardVars, descVars>>

nonDashVars ==
    <<fetchVars, searchVars, persVars, genVars, gwVars, matchVars,
      idVars, pmVars, loginVars, cardVars, descVars>>
nonFetchVars ==
    <<dashVars, searchVars, persVars, genVars, gwVars, matchVars,
      idVars, pmVars, loginVars, cardVars, descVars>>
nonSearchVars ==
    <<dashVars, fetchOnlyVars, persVars, genVars, gwVars,
      matchVars, idVars, pmVars, loginVars, cardVars, descVars>>
nonPersVars ==
    <<dashVars, fetchVars, searchVars, genVars, gwVars, matchVars,
      idVars, pmVars, loginVars, cardVars, descVars>>
nonGenVars ==
    <<dashVars, fetchVars, searchVars, persVars, gwVars, matchVars,
      idVars, pmVars, loginVars, cardVars, descVars>>
nonGwVars ==
    <<dashVars, fetchVars, searchVars, persVars, genVars,
      matchVars, idVars, pmVars, loginVars, cardVars, descVars>>
nonMatchVars ==
    <<dashVars, fetchVars, searchVars, persVars, genVars, gwVars,
      idVars, pmVars, loginVars, cardVars, descVars>>
nonIdVars ==
    <<dashVars, fetchVars, searchVars, persVars, genVars, gwVars,
      matchVars, pmVars, loginVars, cardVars, descVars>>
nonPmVars ==
    <<dashVars, fetchVars, searchVars, persVars, genVars, gwVars,
      matchVars, idVars, loginVars, cardVars, descVars>>
nonLoginVars ==
    <<dashVars, fetchOnlyVars, searchVars, persVars, genVars,
      gwVars, matchVars, idVars, pmVars, cardVars, descVars>>
nonCardVars ==
    <<dashVars, fetchVars, searchVars, persVars, genVars, gwVars,
      matchVars, idVars, pmVars, loginVars, descVars>>
nonDescVars ==
    <<dashVars, fetchVars, searchVars, persVars, genVars, gwVars,
      matchVars, idVars, pmVars, loginVars, cardVars>>

(***************************************************************************)
(* Bounds of the model.                                                    *)
(***************************************************************************)
\* accepted start requests in one run of the dashboard
MaxTasks == 2
\* postings passed to one parallel fetch
MaxJobs == 2
\* the limit argument of a search
MaxLimit == 2
\* result cards on one page
MaxCards == 2
\* results pages the site offers
MaxPages == 2
\* tokens in one language-model response
MaxRespLen == 3
\* characters in a job identifier
MaxIdLen == 2
\* calls of the gateway in a row
MaxCalls == 2
\* experience entries in a profile
MaxExp == 2
\* experience entries in a profile that is validated
MaxEntries == 1
\* calls of login on one scraper
MaxLogins == 3

(***************************************************************************)
(* Dashboard: POST /api/search, POST /api/generate and their workers.      *)
(***************************************************************************)
TaskKinds == {"search", "generate"}

\* _sync_search's try block, one entry per statement that writes app_state
\* or calls out of the module (a call may raise).
SyncSearchBody == <<
    [op |-> "log",      arg |-> "modo"],             \* 500
    [op |-> "progress", arg |-> 10],                 \* 501
    [op |-> "call",     arg |-> "_load_config"],     \* 503
    [op |-> "log",      arg |-> "navegador"],        \* 509-512
    [op |-> "progress", arg |-> 20],                 \* 513
    [op |-> "call",     arg |-> "LinkedInScraper"],  \* 515
    [op |-> "log",      arg |-> "buscando"],         \* 517
    [op |-> "progress", arg |-> 30],                 \* 518
    [op |-> "call",     arg |-> "search_jobs"],      \* 520
    [op |-> "progress", arg |-> 90],                 \* 528
    [op |-> "log",      arg |-> "encontradas"],      \* 529
    [op |-> "call",     arg |-> "close"],            \* 531
    [op |-> "progress", arg |-> 100],                \* 533
    [op |-> "log",      arg |-> "completada"] >>     \* 534

\* _sync_generate's try block.
SyncGenerateBody == <<
    [op |-> "log",      arg |-> "generando"],        \* 564
    [op |-> "progress", arg |-> 10],                 \* 565
    [op |-> "call",     arg |-> "load_profile"],     \* 567-569
    [op |-> "log",      arg |-> "perfil"],           \* 571
    [op |-> "progress", arg |-> 20],                 \* 572
    [op |-> "call",     arg |-> "CVGenerator"],      \* 574
    [op |-> "log",      arg |-> "personalizando"],   \* 576
    [op |-> "progress", arg |-> 30],                 \* 577
    [op |-> "call",     arg |-> "generate"],         \* 579
    [op |-> "progress", arg |-> 90],                 \* 586
    [op |-> "log",      arg |-> "generado"],         \* 587-590
    [op |-> "progress", arg |-> 100],                \* 592
    [op |-> "log",      arg |-> "completada"] >>     \* 593

Body(kind) == IF kind = "search" THEN SyncSearchBody ELSE SyncGenerateBody

\* _log: append to task_logs and set task_message.
Log(msg) ==
    /\ task_logs' = Append(task_logs, msg)
    /\ task_message' = msg

InitDash ==
    /\ current_task = "None"
    /\ task_progress = 0
    /\ task_message = ""
    /\ task_logs = <<>>
    /\ loop = [pc |-> "idle", req |-> "None", seen |-> "None"]
    /\ pending = <<>>
    /\ workers = <<>>
    /\ last_response = [req |-> "None", status |-> 0, seen |-> "None"]

\* start requests accepted so far
Accepted == Len(workers) + Len(pending) + (IF loop.pc = "idle" THEN 0 ELSE 1)

\* A handler with the guard left out: every start request is accepted.
TaskActive_NoGuard == FALSE

\* The guard of both start handlers: if app_state["current_task"]: raise 400.
TaskActive == current_task # "None"

\* A rejection that starts the progress record over.
Reject_Resets(kind) ==
    /\ last_response' = [req |-> kind, status |-> 400, seen |-> current_task]
    /\ task_progress' = 0 /\ task_logs' = <<>>
    /\ UNCHANGED <<current_task, task_message, loop, pending, workers>>

\* raise HTTPException(status_code=400, ...): nothing of app_state is written
Reject(kind) ==
    /\ last_response' = [req |-> kind, status |-> 400, seen |-> current_task]
    /\ UNCHANGED <<current_task, task_progress, task_message, task_logs,
                   loop, pending, workers>>

\* A start request reaches its handler, which reads current_task: 400 when a
\* task is active, else the handler goes on (the event loop runs one handler
\* at a time: neither handler awaits).
StartCheck(kind) ==
    /\ loop.pc = "idle"
    /\ IF TaskActive
       THEN Reject(kind)
       ELSE /\ Accepted < MaxTasks
            /\ loop' = [pc |-> "set_task", req |-> kind, seen |-> current_task]
            /\ UNCHANGED <<current_task, task_progress, task_message, task_logs,
                           pending, workers, last_response>>
    /\ UNCHANGED nonDashVars

\* app_state["current_task"] = "search" / "generate"
StartSetTask ==
    /\ loop.pc = "set_task"
    /\ current_task' = loop.req
    /\ loop' = [loop EXCEPT !.pc = "set_progress"]
    /\ UNCHANGED <<task_progress, task_message, task_logs, pending, workers, last_response>>
    /\ UNCHANGED nonDashVars

\* app_state["task_progress"] = 0
StartSetProgress ==
    /\ loop.pc = "set_progress"
    /\ task_progress' = 0
    /\ loop' = [loop EXCEPT !.pc = "set_message"]
    /\ UNCHANGED <<current_task, task_message, task_logs, pending, workers, last_response>>
    /\ UNCHANGED nonDashVars

\* app_state["task_message"] = "Iniciando ..."
StartSetMessage ==
    /\ loop.pc = "set_message"
    /\ task_message' = "iniciando"
    /\ loop' = [loop EXCEPT !.pc = "set_logs"]
    /\ UNCHANGED <<current_task, task_progress, task_logs, pending, workers, last_response>>
    /\ UNCHANGED nonDashVars

\* app_state["task_logs"] = []
StartSetLogs ==
    /\ loop.pc = "set_logs"
    /\ task_logs' = <<>>
    /\ loop' = [loop EXCEPT !.pc = "add_task"]
    /\ UNCHANGED <<current_task, task_progress, task_message, pending, workers, last_response>>
    /\ UNCHANGED nonDashVars

\* background_tasks.add_task(...); return {"success": True}
StartAddTask ==
    /\ loop.pc = "add_task"
    /\ pending' = Append(pending, loop.req)
    /\ last_response' = [req |-> loop.req, status |-> 200, seen |-> loop.seen]
    /\ loop' = [pc |-> "idle", req |-> "None", seen |-> "None"]
    /\ UNCHANGED <<current_task, task_progress, task_message, task_logs, workers>>
    /\ UNCHANGED nonDashVars

\* _run_search / _run_generate: the background task puts the synchronous
\* function on a thread of a fresh ThreadPoolExecutor.
RunTask ==
    /\ pending # <<>>
    /\ workers' = Append(workers, [kind |-> Head(pending), ip |-> 1, pc |-> "try",
                                   raised |-> FALSE])
    /\ pending' = Tail(pending)
    /\ UNCHANGED <<current_task, task_progress, task_message, task_logs, loop, last_response>>
    /\ UNCHANGED nonDashVars

AtStep(w, op) ==
    /\ w \in DOMAIN workers
    /\ workers[w].pc = "try"
    /\ workers[w].ip <= Len(Body(workers[w].kind))
    /\ Body(workers[w].kind)[workers[w].ip].op = op

StepArg(w) == Body(workers[w].kind)[workers[w].ip].arg

Advance(w) == workers' = [workers EXCEPT ![w].ip = @ + 1]

\* _log(...) inside the try block
WorkerLog(w) ==
    /\ AtStep(w, "log")
    /\ Log(StepArg(w))
    /\ Advance(w)
    /\ UNCHANGED <<current_task, task_progress, loop, pending, last_response>>
    /\ UNCHANGED nonDashVars

\* app_state["task_progress"] = n inside the try block
WorkerProgress(w) ==
    /\ AtStep(w, "progress")
    /\ task_progress' = StepArg(w)
    /\ Advance(w)
    /\ UNCHANGED <<current_task, task_message, task_logs, loop, pending, last_response>>
    /\ UNCHANGED nonDashVars

\* a call out of the module returns
WorkerCall(w) ==
    /\ AtStep(w, "call")
    /\ Advance(w)
    /\ UNCHANGED <<current_task, task_progress, task_message, task_logs,
                   loop, pending, last_response>>
    /\ UNCHANGED nonDashVars

\* a call out of the module raises: control goes to the except clause
WorkerRaise(w) ==
    /\ AtStep(w, "call")
    /\ workers' = [workers EXCEPT ![w].pc = "except_error", ![w].raised = TRUE]
    /\ UNCHANGED <<current_task, task_progress, task_message, task_logs,
                   loop, pending, last_response>>
    /\ UNCHANGED nonDashVars

\* The reset made on entry to the except clause, before its two log lines.
WorkerExcept_ResetFirst(w) ==
    /\ w \in DOMAIN workers
    /\ \/ /\ workers[w].pc = "except_error"
          /\ current_task' = "None"
          /\ Log("error")
          /\ workers' = [workers EXCEPT ![w].pc = "except_detail"]
       \/ /\ workers[w].pc = "except_detail"
          /\ UNCHANGED current_task
          /\ Log("detalle")
          /\ workers' = [workers EXCEPT ![w].pc = "finally"]
    /\ UNCHANGED <<task_progress, loop, pending, last_response>>
    /\ UNCHANGED nonDashVars

\* except Exception as e: _log(f"Error: ..."); _log(f"Detalle: ..."); raise
WorkerExcept(w) ==
    /\ w \in DOMAIN workers
    /\ \/ /\ workers[w].pc = "except_error"
          /\ Log("error")
          /\ workers' = [workers EXCEPT ![w].pc = "except_detail"]
       \/ /\ workers[w].pc = "except_detail"
          /\ Log("detalle")
          /\ workers' = [workers EXCEPT ![w].pc = "finally"]
    /\ UNCHANGED <<current_task, task_progress, loop, pending, last_response>>
    /\ UNCHANGED nonDashVars

\* return jobs / return result: the try block is left for the finally clause
WorkerReturn(w) ==
    /\ w \in DOMAIN workers
    /\ workers[w].pc = "try"
    /\ workers[w].ip = Len(Body(workers[w].kind)) + 1
    /\ workers' = [workers EXCEPT ![w].pc = "finally"]
    /\ UNCHANGED <<current_task, task_progress, task_message, task_logs,
                   loop, pending, last_response>>
    /\ UNCHANGED nonDashVars

\* The reset written at the end of the try block instead of in a finally
\* clause: a worker that raised ends without it.
WorkerFinally_OnSuccessOnly(w) ==
    /\ w \in DOMAIN workers
    /\ workers[w].pc = "finally"
    /\ current_task' = IF workers[w].raised THEN current_task ELSE "None"
    /\ workers' = [workers EXCEPT ![w].pc = "ended"]
    /\ UNCHANGED <<task_progress, task_message, task_logs, loop, pending, last_response>>
    /\ UNCHANGED nonDashVars

\* finally: app_state["current_task"] = None
WorkerFinally(w) ==
    /\ w \in DOMAIN workers
    /\ workers[w].pc = "finally"
    /\ current_task' = "None"
    /\ workers' = [workers EXCEPT ![w].pc = "ended"]
    /\ UNCHANGED <<task_progress, task_message, task_logs, loop, pending, last_response>>
    /\ UNCHANGED nonDashVars

WorkerStep(w) ==
    \/ WorkerLog(w)
    \/ WorkerProgress(w)
    \/ WorkerCall(w)
    \/ WorkerRaise(w)
    \/ WorkerExcept(w)
    \/ WorkerReturn(w)
    \/ WorkerFinally(w)

LoopStep ==
    \/ StartSetTask
    \/ StartSetProgress
    \/ StartSetMessage
    \/ StartSetLogs
    \/ StartAddTask
    \/ RunTask

NextDash ==
    \/ \E kind \in TaskKinds : StartCheck(kind)
    \/ LoopStep
    \/ \E w \in 1..MaxTasks : WorkerStep(w)

(***************************************************************************)
(* LinkedInScraper._fetch_descriptions_parallel: one future per posting on *)
(* a pool of max_workers threads, collected in completion order and put    *)
(* back in the order of the input by identifier.                           *)
(***************************************************************************)
\* self.max_workers when the configuration does not set it
DefaultMaxWorkers == 5
\* a description of at most this many characters counts as not found
MinDescLen == 50
\* the length a description taken from the HTTP response is cut to
MaxDescLen == 5000
\* the lengths of the placeholder texts
LenUrlNoDisponible == 17
LenErrorAlObtener == 28
LenNoDisponible == 25
LenNoDisponibleVisita == 59

\* job['description'], by where it came from and its length in characters
DescAbsent == [kind |-> "absent", len |-> 0]
DescUrlNoDisponible == [kind |-> "URL no disponible", len |-> LenUrlNoDisponible]
DescErrorAlObtener == [kind |-> "Error al obtener", len |-> LenErrorAlObtener]
DescNoDisponible == [kind |-> "no disponible", len |-> LenNoDisponible]
DescNoDisponibleVisita == [kind |-> "no disponible - visita", len |-> LenNoDisponibleVisita]

Min(a, b) == IF a < b THEN a ELSE b

\* The cards a search can collect: the identifier is the hash of title,
\* company and URL, so one identifier goes with one URL; the URL is "" when
\* the card has no link.  A list may hold the same card more than once.
Cards == { [id |-> 1, url |-> "u1"], [id |-> 2, url |-> "u2"], [id |-> 3, url |-> ""] }

\* lengths of the text the patterns extract from a 200 response
HttpLens == {0, MinDescLen, MinDescLen + 1, MaxDescLen + 1}
\* lengths of the text _get_job_description finds on the page
BrowserLens == {MinDescLen, MinDescLen + 1}

SeqsUpTo(S, n) == UNION { [1..k -> S] : k \in 1..n }

InitFetch ==
    /\ \E cs \in SeqsUpTo(Cards, MaxJobs) :
          jobs = [i \in DOMAIN cs |->
                    [id |-> cs[i].id, url |-> cs[i].url, description |-> DescAbsent]]
    /\ driver \in {"None", "open"}
    /\ max_workers \in {1, DefaultMaxWorkers}
    /\ fut = [i \in DOMAIN jobs |-> "submitted"]
    /\ http_gets = [i \in DOMAIN jobs |-> 0]
    /\ http_outcome = [i \in DOMAIN jobs |-> [st |-> "none", len |-> 0]]
    /\ results = <<>>
    /\ returned = <<>>
    /\ fpc = "pool"

\* futures a pool thread is working on
Running == {i \in DOMAIN fut : fut[i] \in {"get", "browser"}}

SetDescription(i, d) == jobs' = [jobs EXCEPT ![i].description = d]
Finish(i) == fut' = [fut EXCEPT ![i] = "done"]

\* A pool thread takes the next submitted future (the pool's queue is FIFO)
\* and runs fetch_description up to the request: a posting without URL gets
\* "URL no disponible" and is done.
FetchStart(i) ==
    /\ fpc = "pool"
    /\ i \in DOMAIN fut /\ fut[i] = "submitted"
    /\ \A j \in 1..(i - 1) : fut[j] # "submitted"
    /\ Cardinality(Running) < max_workers
    /\ IF jobs[i].url = ""
       THEN SetDescription(i, DescUrlNoDisponible) /\ Finish(i)
       ELSE fut' = [fut EXCEPT ![i] = "get"] /\ UNCHANGED jobs
    /\ UNCHANGED <<driver, max_workers, http_gets, http_outcome, results, returned, fpc>>
    /\ UNCHANGED nonFetchVars

Requested(i, out) ==
    /\ http_gets' = [http_gets EXCEPT ![i] = @ + 1]
    /\ http_outcome' = [http_outcome EXCEPT ![i] = out]

\* The except clause left out: the exception leaves fetch_description and
\* is the future's exception.
OnRequestException_Propagate(i) ==
    /\ fut' = [fut EXCEPT ![i] = "failed"]
    /\ UNCHANGED jobs

\* except Exception: job['description'] = "Descripción no disponible"
OnRequestException(i) ==
    /\ SetDescription(i, DescNoDisponible)
    /\ Finish(i)

\* requests.get raises (connection error, timeout)
HttpException(i) ==
    /\ i \in DOMAIN fut /\ fut[i] = "get"
    /\ Requested(i, [st |-> "exception", len |-> 0])
    /\ OnRequestException(i)
    /\ UNCHANGED <<driver, max_workers, results, returned, fpc>>
    /\ UNCHANGED nonFetchVars

\* response.status_code != 200
HttpNon200(i) ==
    /\ i \in DOMAIN fut /\ fut[i] = "get"
    /\ Requested(i, [st |-> "non200", len |-> 0])
    /\ SetDescription(i, DescErrorAlObtener)
    /\ Finish(i)
    /\ UNCHANGED <<driver, max_workers, results, returned, fpc>>
    /\ UNCHANGED nonFetchVars

\* not (description and len(description) > 50)
TooShort(n) == ~(n > MinDescLen)

\* the session test left out: without a session the text is left empty
NoSessionDescription_Empty == [kind |-> "http", len |-> 0]

\* ... if self.driver else "Descripción no disponible"
NoSessionDescription == DescNoDisponible

\* A 200 response whose extracted text has n characters: kept, cut to 5000,
\* when longer than 50; else the posting goes to the browser when there is a
\* session, and gets "Descripción no disponible" when there is none.
HttpOk(i, n) ==
    /\ i \in DOMAIN fut /\ fut[i] = "get"
    /\ Requested(i, [st |-> "ok", len |-> n])
    /\ IF ~TooShort(n)
       THEN SetDescription(i, [kind |-> "http", len |-> Min(n, MaxDescLen)]) /\ Finish(i)
       ELSE IF driver # "None"
            THEN fut' = [fut EXCEPT ![i] = "browser"] /\ UNCHANGED jobs
            ELSE SetDescription(i, NoSessionDescription) /\ Finish(i)
    /\ UNCHANGED <<driver, max_workers, results, returned, fpc>>
    /\ UNCHANGED nonFetchVars

\* _get_job_description returns to the pool thread that called it: the text
\* found when longer than 50 characters, else the long placeholder.
BrowserText(i, n) ==
    /\ i \in DOMAIN fut /\ fut[i] = "browser"
    /\ SetDescription(i, IF n > MinDescLen THEN [kind |-> "browser", len |-> n]
                         ELSE DescNoDisponibleVisita)
    /\ Finish(i)
    /\ UNCHANGED <<driver, max_workers, http_gets, http_outcome, results, returned, fpc>>
    /\ UNCHANGED nonFetchVars

\* _get_job_description catches an exception of the driver
BrowserException(i) ==
    /\ i \in DOMAIN fut /\ fut[i] = "browser"
    /\ SetDescription(i, DescNoDisponible)
    /\ Finish(i)
    /\ UNCHANGED <<driver, max_workers, http_gets, http_outcome, results, returned, fpc>>
    /\ UNCHANGED nonFetchVars

\* for future in as_completed(...): result = future.result(); results.append
\* (future.result() raises the future's exception, if it has one)
Collect(i) ==
    /\ fpc = "pool"
    /\ i \in DOMAIN fut /\ fut[i] \in {"done", "failed"}
    /\ \A p \in DOMAIN results : results[p] # i
    /\ IF fut[i] = "failed"
       THEN fpc' = "raised" /\ UNCHANGED results
       ELSE results' = Append(results, i) /\ UNCHANGED fpc
    /\ UNCHANGED <<jobs, driver, max_workers, fut, http_gets, http_outcome, returned>>
    /\ UNCHANGED nonFetchVars

\* job_dict = {job['id']: job for job in results}; job_dict.get(id, j):
\* the last posting of results with that identifier
JobDictGet(id, default) ==
    LET ps == {p \in DOMAIN results : jobs[results[p]].id = id}
    IN  IF ps = {} THEN default
        ELSE results[CHOOSE p \in ps : \A q \in ps : q <= p]

\* the list results returned as it is, in completion order
InOriginalOrder_AsCompleted == results

\* return [job_dict.get(j['id'], j) for j in jobs]
InOriginalOrder == [i \in DOMAIN jobs |-> JobDictGet(jobs[i].id, i)]

\* every future has been collected: the pool is shut down and the list of
\* postings is returned
Return ==
    /\ fpc = "pool"
    /\ Len(results) = Len(jobs)
    /\ returned' = InOriginalOrder
    /\ fpc' = "returned"
    /\ UNCHANGED <<jobs, driver, max_workers, fut, http_gets, http_outcome, results>>
    /\ UNCHANGED nonFetchVars

NextFetch ==
    \/ \E i \in 1..MaxJobs : FetchStart(i)
    \/ \E i \in 1..MaxJobs : HttpException(i)
    \/ \E i \in 1..MaxJobs : HttpNon200(i)
    \/ \E i \in 1..MaxJobs, n \in HttpLens : HttpOk(i, n)
    \/ \E i \in 1..MaxJobs, n \in BrowserLens : BrowserText(i, n)
    \/ \E i \in 1..MaxJobs : BrowserException(i)
    \/ \E i \in 1..MaxJobs : Collect(i)
    \/ Return


(***************************************************************************)
(* One search operation: main.py search or app.py _sync_search creates a   *)
(* LinkedInScraper, calls search_jobs and (the dashboard) close().         *)
(***************************************************************************)
\* the postings _get_sample_jobs holds
NumSampleJobs == 3

InitSearch ==
    /\ caller \in {"cli", "dashboard"}
    /\ selenium_available \in BOOLEAN
    /\ use_existing_browser \in BOOLEAN
    /\ limit \in 0..MaxLimit
    /\ spc = "search_jobs"
    /\ driver = "None"
    /\ njobs = 0
    /\ page = 0
    /\ opened = FALSE
    /\ close_called = FALSE
    /\ saved = 0
    /\ added = 0
    /\ mode \in {"fast", "normal", "not_loaded"}
    /\ nourl = 0
    /\ described = 0
    /\ caught = FALSE

SearchFrame == UNCHANGED <<caller, selenium_available, use_existing_browser, limit, mode>>

\* search_jobs up to the try block: without Selenium the sample postings
\* that match the keywords (all of them when none does), cut to the limit,
\* each saved and with its description; else the session is created when
\* there is none.
SearchEnter ==
    /\ spc = "search_jobs"
    /\ IF ~selenium_available
       THEN /\ \E matching \in 1..NumSampleJobs : njobs' = Min(matching, limit)
            /\ saved' = njobs'
            /\ described' = njobs'
            /\ spc' = "returned"
       ELSE /\ spc' = IF driver # "None" THEN "navigate"
                      ELSE IF use_existing_browser THEN "connect" ELSE "fresh"
            /\ UNCHANGED <<njobs, saved, described>>
    /\ UNCHANGED <<driver, page, opened, close_called, added, nourl, caught>>
    /\ SearchFrame /\ UNCHANGED nonSearchVars

\* _init_driver: self.driver = webdriver.Chrome(options) on the debug port
ConnectExisting ==
    /\ spc = "connect"
    /\ driver' = "open" /\ opened' = TRUE
    /\ spc' = "new_tab"
    /\ UNCHANGED <<njobs, page, close_called>>
    /\ UNCHANGED <<saved, added, nourl, described, caught>>
    /\ SearchFrame /\ UNCHANGED nonSearchVars

\* _init_driver: the connection or the new tab fails; the except clause goes
\* on to a fresh window, and self.driver keeps what it was assigned.
ConnectFails ==
    /\ spc \in {"connect", "new_tab"}
    /\ spc' = "fresh"
    /\ UNCHANGED <<driver, njobs, page, opened, close_called>>
    /\ UNCHANGED <<saved, added, nourl, described, caught>>
    /\ SearchFrame /\ UNCHANGED nonSearchVars

\* _init_driver: self.driver.switch_to.new_window('tab'); return
NewTab ==
    /\ spc = "new_tab"
    /\ spc' = "navigate"
    /\ UNCHANGED <<driver, njobs, page, opened, close_called>>
    /\ UNCHANGED <<saved, added, nourl, described, caught>>
    /\ SearchFrame /\ UNCHANGED nonSearchVars

\* _init_driver: self.driver = webdriver.Chrome(service=service, options=options)
FreshDriver ==
    /\ spc = "fresh"
    /\ driver' = "open" /\ opened' = TRUE
    /\ spc' = "hide_webdriver"
    /\ UNCHANGED <<njobs, page, close_called>>
    /\ UNCHANGED <<saved, added, nourl, described, caught>>
    /\ SearchFrame /\ UNCHANGED nonSearchVars

\* _init_driver: self.driver.execute_script(...) returns
HideWebdriver ==
    /\ spc = "hide_webdriver"
    /\ spc' = "navigate"
    /\ UNCHANGED <<driver, njobs, page, opened, close_called>>
    /\ UNCHANGED <<saved, added, nourl, described, caught>>
    /\ SearchFrame /\ UNCHANGED nonSearchVars

\* _init_driver raises (the driver manager, Chrome, the script): it is called
\* outside the try block of search_jobs, so search_jobs raises to its caller.
InitDriverRaises ==
    /\ spc \in {"fresh", "hide_webdriver"}
    /\ spc' = "raised"
    /\ UNCHANGED <<driver, njobs, page, opened, close_called>>
    /\ UNCHANGED <<saved, added, nourl, described, caught>>
    /\ SearchFrame /\ UNCHANGED nonSearchVars

\* self.driver.get(search_url), the delays and the scrolls; then the test of
\* the while loop
Navigate ==
    /\ spc = "navigate"
    /\ spc' = IF njobs < limit THEN "page" ELSE "descriptions"
    /\ UNCHANGED <<driver, njobs, page, opened, close_called>>
    /\ UNCHANGED <<saved, added, nourl, described, caught>>
    /\ SearchFrame /\ UNCHANGED nonSearchVars

\* no selector finds a card: break
PageWithoutCards ==
    /\ spc = "page"
    /\ spc' = "descriptions"
    /\ added' = 0
    /\ UNCHANGED <<driver, njobs, page, opened, close_called, saved,
                   nourl, described, caught>>
    /\ SearchFrame /\ UNCHANGED nonSearchVars

\* for card in job_cards, without the test of the limit
CardLoop_NoBreak(n) == njobs + n

\* for card in job_cards: if len(jobs) >= limit: break; ...; if job_data:
\* jobs.append(job_data), where n cards of the page give a posting
CardLoop(n) == Min(limit, njobs + n)

\* the cards of the page, of which n give a posting and u of those have no
\* link (url = ""); the for loop stops at the limit, and below the limit the
\* next page is tried
PageWithCards(cards, n, u) ==
    /\ spc = "page"
    /\ cards >= 1 /\ n <= cards
    /\ njobs' = CardLoop(n)
    /\ added' = njobs' - njobs
    /\ u <= added' /\ nourl' = nourl + u
    /\ spc' = IF njobs' < limit THEN "next_page" ELSE "descriptions"
    /\ UNCHANGED <<driver, page, opened, close_called, saved, described, caught>>
    /\ SearchFrame /\ UNCHANGED nonSearchVars

\* _go_to_next_page: True after a click on an enabled button, False when
\* there is none, it is disabled or anything raises
GoToNextPage(found) ==
    /\ spc = "next_page"
    /\ IF found
       THEN page < MaxPages /\ page' = page + 1 /\ spc' = "page"
       ELSE UNCHANGED page /\ spc' = "descriptions"
    /\ UNCHANGED <<driver, njobs, opened, close_called>>
    /\ UNCHANGED <<saved, added, nourl, described, caught>>
    /\ SearchFrame /\ UNCHANGED nonSearchVars

\* for job in jobs: if job.get('url'): job['description'] =
\* self._get_job_description(job['url']), which returns a text or a
\* placeholder; a posting without url is passed over
SequentialDescriptions == njobs - nourl

\* the descriptions: the parallel fetch, which gives every posting a text or
\* a placeholder; the browser one posting at a time; or the "not loaded"
\* placeholder for every posting
Descriptions ==
    /\ spc = "descriptions"
    /\ described' = IF mode = "normal" THEN SequentialDescriptions ELSE njobs
    /\ spc' = "save"
    /\ UNCHANGED <<driver, njobs, page, opened, close_called>>
    /\ UNCHANGED <<saved, added, nourl, caught>>
    /\ SearchFrame /\ UNCHANGED nonSearchVars

\* for job in jobs: self._save_job(job), one posting
SaveJob == saved + 1

\* for job in jobs: self._save_job(job); return jobs
SaveJobs ==
    /\ spc = "save"
    /\ IF saved < njobs
       THEN saved' = SaveJob /\ UNCHANGED spc
       ELSE spc' = "returned" /\ UNCHANGED saved
    /\ UNCHANGED <<driver, njobs, page, opened, close_called, added,
                   nourl, described, caught>>
    /\ SearchFrame /\ UNCHANGED nonSearchVars

\* except Exception as e: ...; return jobs
BodyRaises ==
    /\ spc \in {"navigate", "page", "descriptions", "save"}
    /\ spc' = "returned"
    /\ caught' = TRUE
    /\ UNCHANGED <<driver, njobs, page, opened, close_called>>
    /\ UNCHANGED <<saved, added, nourl, described>>
    /\ SearchFrame /\ UNCHANGED nonSearchVars

\* main.py search: the table is printed, or the error; the command ends
CliEnds ==
    /\ caller = "cli"
    /\ spc \in {"returned", "raised"}
    /\ spc' = "ended"
    /\ UNCHANGED <<driver, njobs, page, opened, close_called>>
    /\ UNCHANGED <<saved, added, nourl, described, caught>>
    /\ SearchFrame /\ UNCHANGED nonSearchVars

\* LinkedInScraper.close with driver.quit() returning
Close ==
    /\ close_called' = TRUE
    /\ driver' = "None"

\* _sync_search: scraper.close(), then the rest of the try block
DashboardCloses ==
    /\ caller = "dashboard"
    /\ spc = "returned"
    /\ Close
    /\ spc' = "ended"
    /\ UNCHANGED <<njobs, page, opened>>
    /\ UNCHANGED <<saved, added, nourl, described, caught>>
    /\ SearchFrame /\ UNCHANGED nonSearchVars

\* _sync_search: scraper.close() raises in driver.quit(), before
\* self.driver = None; the except and finally clauses follow
DashboardCloseRaises ==
    /\ caller = "dashboard"
    /\ spc = "returned"
    /\ driver # "None"
    /\ close_called' = TRUE
    /\ spc' = "ended"
    /\ UNCHANGED <<driver, njobs, page, opened>>
    /\ UNCHANGED <<saved, added, nourl, described, caught>>
    /\ SearchFrame /\ UNCHANGED nonSearchVars

\* _sync_search: search_jobs raised; the except clause logs and raises again
DashboardExcept ==
    /\ caller = "dashboard"
    /\ spc = "raised"
    /\ spc' = "ended"
    /\ UNCHANGED <<driver, njobs, page, opened, close_called>>
    /\ UNCHANGED <<saved, added, nourl, described, caught>>
    /\ SearchFrame /\ UNCHANGED nonSearchVars

NextSearch ==
    \/ SearchEnter
    \/ ConnectExisting
    \/ ConnectFails
    \/ NewTab
    \/ FreshDriver
    \/ HideWebdriver
    \/ InitDriverRaises
    \/ Navigate
    \/ PageWithoutCards
    \/ \E cards \in 1..MaxCards, n \in 0..MaxCards, u \in 0..MaxCards :
          PageWithCards(cards, n, u)
    \/ \E found \in BOOLEAN : GoToNextPage(found)
    \/ Descriptions
    \/ SaveJobs
    \/ BodyRaises
    \/ CliEnds
    \/ DashboardCloses
    \/ DashboardCloseRaises
    \/ DashboardExcept

\* the progress record: what GET /api/task/status shows of a task
ProgressRecord == <<task_progress, task_message, task_logs>>

\* the worker w is the thread of the task that is active: the last one
\* started, not ended, of the kind current_task names, with no handler at
\* work and no task waiting, and every earlier worker ended
OwnWorker(w) ==
    /\ w = Len(workers) /\ workers[w].pc # "ended"
    /\ current_task = workers[w].kind
    /\ loop.pc = "idle" /\ pending = <<>>
    /\ \A v \in 1..(w - 1) : workers[v].pc = "ended"

\* C27: a worker that has reset current_task to None writes nothing more to
\* task_progress, task_message or task_logs: every write to them is made by
\* the handler of an accepted start request or by the worker of the task
\* that is active; and from one start request to the next task_progress
\* does not decrease and stays within 0..100.
C27_NoWriteAfterReset ==
    /\ task_progress \in 0..100
    /\ [][/\ ProgressRecord' # ProgressRecord =>
                \/ loop.pc \in {"set_progress", "set_message", "set_logs"}
                \/ \E w \in DOMAIN workers :
                       /\ OwnWorker(w)
                       /\ workers'[w] # workers[w]
                       /\ \A v \in DOMAIN workers \ {w} : workers'[v] = workers[v]
          /\ task_progress' < task_progress => loop.pc = "set_progress"
          /\ task_progress' \in 0..100]_vars

\* C27's case: the first worker raised and has ended, and the worker of the
\* second task has written progress and log lines of its own.
C27_Witness ==
    /\ Len(workers) = 2
    /\ workers[1].pc = "ended" /\ workers[1].raised
    /\ workers[2].pc = "try" /\ task_progress >= 20
    /\ Len(task_logs) >= 2

(***************************************************************************)
(* Claims about the threshold of the parallel fetch.                       *)
(***************************************************************************)
\* C24: a posting whose 200 response gave a text of 50 characters or more
\* keeps that text as its description, cut to at most 5000 characters; it
\* goes to the browser exactly when the text is shorter than 50 characters
\* and there is a browser session.
C24_FallbackThreshold ==
    \A i \in DOMAIN jobs :
        (http_outcome[i].st = "ok" /\ fut[i] # "get") =>
            LET n == http_outcome[i].len
                to_browser == \/ fut[i] = "browser"
                              \/ jobs[i].description.kind \in
                                    {"browser", "no disponible - visita"}
            IN  /\ n >= MinDescLen =>
                      /\ jobs[i].description = [kind |-> "http", len |-> Min(n, MaxDescLen)]
                      /\ fut[i] = "done"
                /\ to_browser => (n < MinDescLen /\ driver # "None")

(***************************************************************************)
(* Claims about the browser session of a search.                           *)
(***************************************************************************)
\* C5: every caller that opens a browser session releases it: when a search
\* started from the CLI or from the dashboard has ended, by return or by
\* exception, close() has been called and the driver is None.
C5_SessionReleased ==
    (spc = "ended" /\ opened) => (close_called /\ driver = "None")

\* C20: every posting search_jobs returns has been stored as its own
\* record: when search_jobs has returned its list, each posting of the list
\* has been written by _save_job, also when the description fetch or an
\* earlier save failed part-way.
C20_ReturnedPostingsSaved ==
    spc \in {"returned", "ended"} => saved = njobs

\* C21: search_jobs never collects more postings than the requested limit
\* (a limit of zero or more), and pagination stops early: when
\* _go_to_next_page finds no enabled next-page control the loop ends, and
\* from there to the return the postings collected so far are kept as they
\* are, even if fewer than the limit.
C21_LimitAndEarlyStop ==
    /\ njobs <= limit
    /\ [][/\ njobs' <= limit'
          /\ (spc = "next_page" /\ spc' # "page")
                => (spc' = "descriptions" /\ njobs' = njobs)
          /\ spc \in {"descriptions", "save", "returned"} => njobs' = njobs]_vars

\* C30: when search_jobs returns by its return statement, every posting of
\* the list has a description that is not empty, in fast mode, in normal
\* mode (postings with an empty url too) and without descriptions fetched.
C30_ReturnedPostingsDescribed ==
    (spc \in {"returned", "ended"} /\ ~caught) => described = njobs

\* C29: the pagination loop of search_jobs ends for every behaviour of the
\* site: a pass of the loop that goes on to another pass has added at least
\* one posting to the result, which the limit bounds; a page whose cards all
\* lack a title, followed by an enabled next-page control, does not start
\* another pass.
C29_EachPassAddsOrEnds ==
    [][(spc = "next_page" /\ spc' = "page") => added > 0]_vars

\* the next-page control was missing after a page that gave postings, and
\* search_jobs returned fewer postings than the limit
C21_Witness ==
    /\ spc = "returned" /\ selenium_available /\ ~caught
    /\ added > 0 /\ njobs < limit /\ saved = njobs

(***************************************************************************)
(* CVPersonalizer.personalize_cv and the gateway calls it makes.           *)
(***************************************************************************)
\* A response of the language model, as tokens: an opening brace, a closing
\* brace, a key with its value, other text.
Tokens == {"{", "}", "kv", "txt"}
Responses == UNION { [1..k -> Tokens] : k \in 0..MaxRespLen }

\* str.find: the first index (from 0) of the token, or -1
Find(resp, tok) ==
    LET ps == {p \in DOMAIN resp : resp[p] = tok}
    IN  IF ps = {} THEN -1 ELSE (CHOOSE p \in ps : \A q \in ps : p <= q) - 1

\* str.rfind: the last index (from 0) of the token, or -1
RFind(resp, tok) ==
    LET ps == {p \in DOMAIN resp : resp[p] = tok}
    IN  IF ps = {} THEN -1 ELSE (CHOOSE p \in ps : \A q \in ps : q <= p) - 1

\* json.loads of a span that starts with "{" and ends with "}": the empty
\* object, an object with a member, or a JSONDecodeError
JsonLoads(span) ==
    IF span = <<"{", "}">> THEN [kind |-> "empty", raw |-> <<>>]
    ELSE IF span = <<"{", "kv", "}">> THEN [kind |-> "parsed", raw |-> <<>>]
    ELSE [kind |-> "error", raw |-> <<>>]

\* analyze_job after the gateway call: the span from the first "{" to the
\* last "}" parsed, else {"raw_analysis": response}
ParseAnalysis(resp) ==
    LET json_start == Find(resp, "{")
        json_end == RFind(resp, "}") + 1
    IN  IF json_start # -1 /\ json_end > json_start
        THEN LET parsed == JsonLoads(SubSeq(resp, json_start + 1, json_end))
             IN  IF parsed.kind = "error" THEN [kind |-> "raw", raw |-> resp]
                 ELSE parsed
        ELSE [kind |-> "raw", raw |-> resp]

\* "if not job_analysis": None and the empty record are both false
NotJobAnalysis(analysis) == analysis.kind \in {"None", "empty"}

\* the prompt of each step of personalize_cv
StepPrompt ==
    <<"analyze", "match", "summary", "experience", "skills", "cover">>

\* the entries of profile['experiencia']
ExperienceEntries ==
    { [empresa |-> "Acme", puesto |-> "Developer",
       fecha_inicio |-> "2020-01", fecha_fin |-> "2021-06"],
      [empresa |-> "Globex", puesto |-> "Analyst",
       fecha_inicio |-> "2021-07", fecha_fin |-> "None"] }

Profiles ==
    { [experiencia |-> e] : e \in UNION { [1..k -> ExperienceEntries] : k \in 0..MaxExp } }

InitPers ==
    /\ profile \in Profiles
    /\ profile_before = profile
    /\ experience = "None"
    /\ ppc = "run"
    /\ stage = 1
    /\ reanalyzed = FALSE
    /\ generate_cover_letter \in BOOLEAN
    /\ job_analysis = [kind |-> "None", raw |-> <<>>]
    /\ calls = <<>>
    /\ failed_at = 0
    /\ result = "None"

\* the step after the given one: the cover letter is step 6, skipped when
\* not asked for; step 7 builds the record
StepAfter(st) == IF st = 5 /\ ~generate_cover_letter THEN 7 ELSE st + 1

\* the steps that take job_analysis and call analyze_job without one
TakesAnalysis(st) == st \in 3..6

\* the gateway call the step is about to issue
NextPrompt ==
    IF TakesAnalysis(stage) /\ NotJobAnalysis(job_analysis) /\ ~reanalyzed
    THEN "analyze" ELSE StepPrompt[stage]

\* 1. job_analysis = self.analyze_job(job_description)
AnalyzeJob(resp) ==
    /\ ppc = "run" /\ stage = 1
    /\ calls' = Append(calls, "analyze")
    /\ job_analysis' = ParseAnalysis(resp)
    /\ stage' = 2
    /\ UNCHANGED <<ppc, reanalyzed, generate_cover_letter, failed_at, result>>
    /\ UNCHANGED <<persInput, experience>>
    /\ UNCHANGED nonPersVars

\* 2. match_score = self.calculate_match_score(profile, job_description)
MatchScore ==
    /\ ppc = "run" /\ stage = 2
    /\ calls' = Append(calls, "match")
    /\ stage' = 3
    /\ UNCHANGED <<ppc, reanalyzed, generate_cover_letter, job_analysis, failed_at, result>>
    /\ UNCHANGED <<persInput, experience>>
    /\ UNCHANGED nonPersVars

\* generate_summary, optimize_experience, optimize_skills and
\* generate_cover_letter: if not job_analysis: job_analysis = self.analyze_job(...)
\* (the step's own variable: the caller's record stays what it was)
Reanalyze ==
    /\ ppc = "run" /\ TakesAnalysis(stage)
    /\ NotJobAnalysis(job_analysis) /\ ~reanalyzed
    /\ calls' = Append(calls, "analyze")
    /\ reanalyzed' = TRUE
    /\ UNCHANGED <<ppc, stage, generate_cover_letter, job_analysis, failed_at, result>>
    /\ UNCHANGED <<persInput, experience>>
    /\ UNCHANGED nonPersVars

\* what the language model writes about the experience: a text that keeps
\* the names of the companies, or one that changes them
LmTexts == {"keeps_names", "alters_names"}

\* the entries put in the order of the answer: here, turned around
OptimizedExperience_Reordered(entries, text) ==
    [optimized_text |-> text,
     original |-> [k \in DOMAIN entries |-> entries[Len(entries) + 1 - k]]]

\* optimize_experience: return {"optimized_text": response, "original": experience}
OptimizedExperience(entries, text) ==
    [optimized_text |-> text, original |-> entries]

\* 3.-6. the step's own gateway call
SectionCall(text) ==
    /\ ppc = "run" /\ TakesAnalysis(stage)
    /\ ~NotJobAnalysis(job_analysis) \/ reanalyzed
    /\ calls' = Append(calls, StepPrompt[stage])
    /\ experience' = IF stage = 4
                     THEN OptimizedExperience(profile.experiencia, text)
                     ELSE experience
    /\ stage' = StepAfter(stage)
    /\ reanalyzed' = FALSE
    /\ UNCHANGED <<ppc, generate_cover_letter, job_analysis, failed_at, result>>
    /\ UNCHANGED persInput
    /\ UNCHANGED nonPersVars

\* result = {...}; return result
BuildResult ==
    /\ ppc = "run" /\ stage = 7
    /\ result' = [job_analysis |-> job_analysis,
                  optimized_experience |-> experience,
                  cover_letter |-> generate_cover_letter]
    /\ ppc' = "returned"
    /\ UNCHANGED <<stage, reanalyzed, generate_cover_letter, job_analysis, calls, failed_at>>
    /\ UNCHANGED <<persInput, experience>>
    /\ UNCHANGED nonPersVars

\* the error caught and the request sent again
OnGatewayError_Retry ==
    /\ UNCHANGED ppc

\* OllamaClient.generate: except requests.Timeout: raise TimeoutError;
\* except requests.RequestException: raise.  No caller up to personalize_cv
\* catches it.
OnGatewayError ==
    /\ ppc' = "raised"

\* a gateway call raises (connection refused, timeout, HTTP error)
GatewayFails ==
    /\ ppc = "run" /\ stage \in 1..6
    /\ calls' = Append(calls, NextPrompt)
    /\ failed_at' = Len(calls) + 1
    /\ OnGatewayError
    /\ UNCHANGED <<stage, reanalyzed, generate_cover_letter, job_analysis, result>>
    /\ UNCHANGED <<persInput, experience>>
    /\ UNCHANGED nonPersVars

NextPers ==
    \/ \E resp \in Responses : AnalyzeJob(resp)
    \/ MatchScore
    \/ Reanalyze
    \/ \E text \in LmTexts : SectionCall(text)
    \/ BuildResult
    \/ GatewayFails

(***************************************************************************)
(* Claims about the personalizer.                                          *)
(***************************************************************************)
\* C8: personalize_cv issues exactly six gateway calls when a cover letter is
\* requested and exactly five otherwise, in the order analyze job, match
\* score, summary, reorder experience, filter skills, cover letter, whatever
\* the language model answers, an analysis that parses to an empty record
\* included.
C8_SixOrderedCalls ==
    ppc = "returned" =>
        calls = IF generate_cover_letter THEN StepPrompt ELSE SubSeq(StepPrompt, 1, 5)

\* C9: a gateway call that raises is not repeated and no call follows it;
\* personalize_cv raises to its caller and produces no record.
C9_FailurePropagates ==
    /\ failed_at # 0 =>
          /\ ppc = "raised"
          /\ Len(calls) = failed_at
          /\ result = "None"
    /\ ppc = "raised" => failed_at # 0
    /\ ppc = "returned" => failed_at = 0

\* the company, position and dates of an experience entry
Identity(entry) ==
    <<entry.empresa, entry.puesto, entry.fecha_inicio, entry.fecha_fin>>

C9_Witness ==
    /\ ppc = "raised"
    /\ failed_at = 4 /\ calls[4] = "experience"

(***************************************************************************)
(* CVGenerator.generate and _generate_pdf.                                 *)
(***************************************************************************)
\* the paths generate builds from one file name
PdfPath == "cv.pdf"
HtmlPath == "cv.html"
CoverPath == "carta.html"

\* Path.with_suffix('.html')
WithSuffixHtml(path) == IF path = PdfPath THEN HtmlPath ELSE path

\* identifiers, as strings over two characters
Ids == UNION { [1..k -> {"a", "b"}] : k \in 1..MaxIdLen }

\* str.startswith
StartsWith(str, prefix) ==
    /\ Len(prefix) <= Len(str)
    /\ SubSeq(str, 1, Len(prefix)) = prefix

\* sub in str
Contains(str, sub) ==
    \E k \in 0..(Len(str) - Len(sub)) : SubSeq(str, k + 1, k + Len(sub)) = sub

\* job.get('id', '').startswith(job_id) or job_id in str(job_file), for the
\* file <id>.json that _save_job wrote
Matches(id, wanted) == StartsWith(id, wanted) \/ Contains(id, wanted)

\* the identifiers a store can hold
StoredIds == {<<"a">>, <<"a", "b">>}

\* some stored posting matches the job identifier
JobFound == \E id \in stored : Matches(id, job_id)

InitGen ==
    /\ gpc = "load_profile"
    /\ profile_exists \in BOOLEAN
    /\ job_id \in Ids
    /\ stored \in SUBSET StoredIds
    /\ job = "None"
    /\ gerror = "None"
    /\ gateway_used = FALSE
    /\ output_format \in {"pdf", "html"}
    /\ include_cover_letter \in BOOLEAN
    /\ cover_letter = FALSE
    /\ pdf_generated = FALSE
    /\ tried = <<>>
    /\ files = {}
    /\ glog = <<>>
    /\ gresult = [cv |-> "None", cover_letter |-> "None"]

GenFrame ==
    UNCHANGED <<output_format, include_cover_letter, profile_exists, job_id, stored>>

\* the rest of the state that the steps after personalize_cv leave alone
GenLoaded == UNCHANGED <<job, gerror, gateway_used>>

\* the caller: profile = profile_manager.load_profile()
LoadProfile ==
    /\ gpc = "load_profile" /\ profile_exists
    /\ gpc' = "load_job"
    /\ GenFrame /\ GenLoaded
    /\ UNCHANGED <<cover_letter, pdf_generated, tried, files, glog, gresult>>
    /\ UNCHANGED nonGenVars

\* load_profile: raise FileNotFoundError when the file does not exist
LoadProfileRaises ==
    /\ gpc = "load_profile" /\ ~profile_exists
    /\ gpc' = "raised"
    /\ gerror' = "FileNotFoundError"
    /\ GenFrame
    /\ UNCHANGED <<job, gateway_used>>
    /\ UNCHANGED <<cover_letter, pdf_generated, tried, files, glog, gresult>>
    /\ UNCHANGED nonGenVars

\* _load_job when nothing matches: a posting made up for tests
NoJob == "test"

\* job = self._load_job(job_id)
LoadJob ==
    /\ gpc = "load_job"
    /\ job' = IF JobFound THEN "stored" ELSE NoJob
    /\ gpc' = "check_job"
    /\ GenFrame
    /\ UNCHANGED <<gerror, gateway_used>>
    /\ UNCHANGED <<cover_letter, pdf_generated, tried, files, glog, gresult>>
    /\ UNCHANGED nonGenVars

\* if not job: raise ValueError(f"Oferta no encontrada: {job_id}")
CheckJob ==
    /\ gpc = "check_job"
    /\ IF job = "None"
       THEN gpc' = "raised" /\ gerror' = "ValueError"
       ELSE gpc' = "personalize" /\ UNCHANGED gerror
    /\ GenFrame
    /\ UNCHANGED <<job, gateway_used>>
    /\ UNCHANGED <<cover_letter, pdf_generated, tried, files, glog, gresult>>
    /\ UNCHANGED nonGenVars

\* personalized_cv = personalizer.personalize_cv(...) returns; the letter is
\* there when asked for and not empty
Personalized(letter) ==
    /\ gpc = "personalize"
    /\ letter => include_cover_letter
    /\ cover_letter' = letter
    /\ gpc' = "format"
    /\ gateway_used' = TRUE
    /\ UNCHANGED <<job, gerror>>
    /\ GenFrame
    /\ UNCHANGED <<pdf_generated, tried, files, glog, gresult>>
    /\ UNCHANGED nonGenVars

\* personalize_cv raises (a gateway call failed): generate raises
PersonalizeRaises ==
    /\ gpc = "personalize"
    /\ gpc' = "raised"
    /\ gerror' = "gateway"
    /\ gateway_used' = TRUE
    /\ UNCHANGED job
    /\ GenFrame
    /\ UNCHANGED <<cover_letter, pdf_generated, tried, files, glog, gresult>>
    /\ UNCHANGED nonGenVars

\* if output_format == "html": self._save_html(html_content, output_path)
SaveHtml ==
    /\ gpc = "format" /\ output_format = "html"
    /\ files' = files \cup {HtmlPath}
    /\ gresult' = [gresult EXCEPT !.cv = HtmlPath]
    /\ gpc' = "cover"
    /\ GenFrame /\ GenLoaded
    /\ UNCHANGED <<cover_letter, pdf_generated, tried, glog>>
    /\ UNCHANGED nonGenVars

\* else: self._generate_pdf(html_content, output_path); pdf_generated = False
EnterGeneratePdf ==
    /\ gpc = "format" /\ output_format # "html"
    /\ pdf_generated' = FALSE
    /\ gpc' = "pdfkit"
    /\ GenFrame /\ GenLoaded
    /\ UNCHANGED <<cover_letter, tried, files, glog, gresult>>
    /\ UNCHANGED nonGenVars

\* import pdfkit raises ImportError: pass
PdfkitImportError ==
    /\ gpc = "pdfkit"
    /\ gpc' = "after_pdfkit"
    /\ GenFrame /\ GenLoaded
    /\ UNCHANGED <<cover_letter, pdf_generated, tried, files, glog, gresult>>
    /\ UNCHANGED nonGenVars

\* no wkhtmltopdf at the known paths: config stays None, a warning
PdfkitNoConfig ==
    /\ gpc = "pdfkit"
    /\ glog' = Append(glog, "wkhtmltopdf no encontrado")
    /\ gpc' = "after_pdfkit"
    /\ GenFrame /\ GenLoaded
    /\ UNCHANGED <<cover_letter, pdf_generated, tried, files, gresult>>
    /\ UNCHANGED nonGenVars

\* pdfkit.from_string raises: except Exception, logged at debug level
PdfkitRaises ==
    /\ gpc = "pdfkit"
    /\ tried' = Append(tried, "pdfkit")
    /\ gpc' = "after_pdfkit"
    /\ GenFrame /\ GenLoaded
    /\ UNCHANGED <<cover_letter, pdf_generated, files, glog, gresult>>
    /\ UNCHANGED nonGenVars

\* pdfkit.from_string writes the PDF; pdf_generated = True
PdfkitWrites ==
    /\ gpc = "pdfkit"
    /\ tried' = Append(tried, "pdfkit")
    /\ files' = files \cup {PdfPath}
    /\ pdf_generated' = TRUE
    /\ gpc' = "after_pdfkit"
    /\ GenFrame /\ GenLoaded
    /\ UNCHANGED <<cover_letter, glog, gresult>>
    /\ UNCHANGED nonGenVars

\* if not pdf_generated: (try WeasyPrint)
TryWeasyPrint == ~pdf_generated

\* the test before the second converter
AfterPdfkit ==
    /\ gpc = "after_pdfkit"
    /\ gpc' = IF TryWeasyPrint THEN "weasyprint" ELSE "after_weasyprint"
    /\ GenFrame /\ GenLoaded
    /\ UNCHANGED <<cover_letter, pdf_generated, tried, files, glog, gresult>>
    /\ UNCHANGED nonGenVars

\* from weasyprint import HTML raises ImportError: a warning
WeasyImportError ==
    /\ gpc = "weasyprint"
    /\ glog' = Append(glog, "WeasyPrint no instalado.")
    /\ gpc' = "after_weasyprint"
    /\ GenFrame /\ GenLoaded
    /\ UNCHANGED <<cover_letter, pdf_generated, tried, files, gresult>>
    /\ UNCHANGED nonGenVars

\* write_pdf raises: except Exception, logged as an error
WeasyRaises ==
    /\ gpc = "weasyprint"
    /\ tried' = Append(tried, "weasyprint")
    /\ glog' = Append(glog, "Error generando PDF")
    /\ gpc' = "after_weasyprint"
    /\ GenFrame /\ GenLoaded
    /\ UNCHANGED <<cover_letter, pdf_generated, files, gresult>>
    /\ UNCHANGED nonGenVars

\* write_pdf writes the PDF; pdf_generated = True
WeasyWrites ==
    /\ gpc = "weasyprint"
    /\ tried' = Append(tried, "weasyprint")
    /\ files' = files \cup {PdfPath}
    /\ pdf_generated' = TRUE
    /\ gpc' = "after_weasyprint"
    /\ GenFrame /\ GenLoaded
    /\ UNCHANGED <<cover_letter, glog, gresult>>
    /\ UNCHANGED nonGenVars

\* if not pdf_generated: the HTML saved next to the PDF path.  The
\* assignment output_path = html_path that ends _generate_pdf changes its own
\* parameter only.
HtmlFallback ==
    /\ gpc = "after_weasyprint" /\ ~pdf_generated
    /\ glog' = Append(glog, "Guardando como HTML en lugar de PDF")
    /\ files' = files \cup {WithSuffixHtml(PdfPath)}
    /\ gpc' = "set_cv"
    /\ GenFrame /\ GenLoaded
    /\ UNCHANGED <<cover_letter, pdf_generated, tried, gresult>>
    /\ UNCHANGED nonGenVars

\* _generate_pdf returns with the PDF written
PdfDone ==
    /\ gpc = "after_weasyprint" /\ pdf_generated
    /\ gpc' = "set_cv"
    /\ GenFrame /\ GenLoaded
    /\ UNCHANGED <<cover_letter, pdf_generated, tried, files, glog, gresult>>
    /\ UNCHANGED nonGenVars

\* result['cv'] = str(output_path), generate's own output_path
SetCv ==
    /\ gpc = "set_cv"
    /\ gresult' = [gresult EXCEPT !.cv = PdfPath]
    /\ gpc' = "cover"
    /\ GenFrame /\ GenLoaded
    /\ UNCHANGED <<cover_letter, pdf_generated, tried, files, glog>>
    /\ UNCHANGED nonGenVars

\* if include_cover_letter and personalized_cv.get('cover_letter'): the letter
\* saved as HTML; return result
CoverAndReturn ==
    /\ gpc = "cover"
    /\ IF include_cover_letter /\ cover_letter
       THEN /\ files' = files \cup {CoverPath}
            /\ gresult' = [gresult EXCEPT !.cover_letter = CoverPath]
       ELSE UNCHANGED <<files, gresult>>
    /\ gpc' = "returned"
    /\ GenFrame /\ GenLoaded
    /\ UNCHANGED <<cover_letter, pdf_generated, tried, glog>>
    /\ UNCHANGED nonGenVars

NextGen ==
    \/ LoadProfile
    \/ LoadProfileRaises
    \/ LoadJob
    \/ CheckJob
    \/ \E letter \in BOOLEAN : Personalized(letter)
    \/ PersonalizeRaises
    \/ SaveHtml
    \/ EnterGeneratePdf
    \/ PdfkitImportError
    \/ PdfkitNoConfig
    \/ PdfkitRaises
    \/ PdfkitWrites
    \/ AfterPdfkit
    \/ WeasyImportError
    \/ WeasyRaises
    \/ WeasyWrites
    \/ HtmlFallback
    \/ PdfDone
    \/ SetCv
    \/ CoverAndReturn

(***************************************************************************)
(* Claims about the generator.                                             *)
(***************************************************************************)
\* C11: a missing document is a "not found" error: with no profile file
\* load_profile raises FileNotFoundError, and with no stored posting matching
\* the job identifier generate raises its not-found error before any call
\* of the language model and before any file is written.
C11_MissingDocumentRaises ==
    /\ (~profile_exists /\ gpc # "load_profile") =>
          (gpc = "raised" /\ gerror = "FileNotFoundError")
    /\ (profile_exists /\ ~JobFound /\ gpc \notin {"load_profile", "load_job", "check_job"}) =>
          /\ gpc = "raised" /\ gerror = "ValueError"
          /\ ~gateway_used
          /\ files = {}

\* C28: when generate returns, a file exists at the path result['cv'] names,
\* for every outcome of the PDF converters; when both fail and the HTML is
\* written instead, result['cv'] is the path of that HTML file.
C28_ReturnedCvExists ==
    gpc = "returned" =>
        /\ gresult.cv \in files
        /\ (output_format = "pdf" /\ ~pdf_generated) => gresult.cv = WithSuffixHtml(PdfPath)

\* C10: with PDF requested, once the personalized record is there generate
\* does not raise; the second converter runs only if the first wrote no PDF;
\* when neither wrote one the HTML is on disk, generate returns, and what it
\* returns to its caller names the HTML written in place of the PDF.
C10_PdfNeverFailsAndReportsHtml ==
    /\ (output_format = "pdf" /\ gpc = "raised") => tried = <<>> /\ files = {}
    /\ \A k \in 1..Len(tried) : tried[k] = "weasyprint" => k = Len(tried)
    /\ (gpc = "returned" /\ output_format = "pdf" /\ ~pdf_generated) =>
          /\ HtmlPath \in files
          /\ gresult.cv = HtmlPath

(***************************************************************************)
(* OllamaClient: one HTTP request per method call.                         *)
(***************************************************************************)
GatewayOps == {"generate", "chat", "embed", "check_connection", "list_models"}

\* what the network does with a request
NetOutcomes == {"ok", "http_error", "refused", "timeout"}

InitGw ==
    /\ gw_op = "None"
    /\ gw_sent = 0
    /\ gw_history = <<>>

\* a method is called and sends its request: requests.get / requests.post
GwCall(op) ==
    /\ gw_op = "None"
    /\ Len(gw_history) < MaxCalls
    /\ gw_op' = op
    /\ gw_sent' = 1
    /\ UNCHANGED gw_history
    /\ UNCHANGED nonGwVars

\* a method's return with a 200 response
OnResponse(op) ==
    CASE op = "generate" -> [raised |-> "None", value |-> "text"]
      [] op = "chat" -> [raised |-> "None", value |-> "text"]
      [] op = "embed" -> [raised |-> "None", value |-> "vector"]
      [] op = "check_connection" -> [raised |-> "None", value |-> "True"]
      [] op = "list_models" -> [raised |-> "None", value |-> "names"]

\* the except clauses of each method for a requests.RequestException:
\* generate turns a timeout into TimeoutError and raises the rest again,
\* chat raises again, embed returns [], check_connection returns False,
\* list_models returns []
OnRequestError(op, net) ==
    CASE op = "generate" ->
            [raised |-> IF net = "timeout" THEN "TimeoutError" ELSE "RequestException",
             value |-> "None"]
      [] op = "chat" -> [raised |-> "RequestException", value |-> "None"]
      [] op = "embed" -> [raised |-> "None", value |-> "[]"]
      [] op = "check_connection" -> [raised |-> "None", value |-> "False"]
      [] op = "list_models" -> [raised |-> "None", value |-> "[]"]

\* the method ends with what it returns or raises
GwEnd(net, out) ==
    /\ gw_history' = Append(gw_history,
            [op |-> gw_op, net |-> net, sent |-> gw_sent,
             raised |-> out.raised, value |-> out.value])
    /\ gw_op' = "None"
    /\ gw_sent' = 0
    /\ UNCHANGED nonGwVars

\* the server answers 200
NetOk ==
    /\ gw_op # "None"
    /\ GwEnd("ok", OnResponse(gw_op))

\* the server answers with an error status: raise_for_status raises an
\* HTTPError; check_connection compares the status with 200
NetHttpError ==
    /\ gw_op # "None"
    /\ GwEnd("http_error", OnRequestError(gw_op, "http_error"))

\* the connection is refused: requests.ConnectionError
NetRefused ==
    /\ gw_op # "None"
    /\ GwEnd("refused", OnRequestError(gw_op, "refused"))

\* no answer within the timeout: requests.Timeout
NetTimeout ==
    /\ gw_op # "None"
    /\ GwEnd("timeout", OnRequestError(gw_op, "timeout"))

NextGw ==
    \/ \E op \in GatewayOps : GwCall(op)
    \/ NetOk
    \/ NetHttpError
    \/ NetRefused
    \/ NetTimeout

(***************************************************************************)
(* Claims about the gateway.                                               *)
(***************************************************************************)
\* C12: on a network error (connection refused, timeout) generate, chat and
\* embed raise to the caller, check_connection returns False and list_models
\* returns the empty list without raising; each sent one request only.
C12_GatewayFailureModes ==
    \A k \in DOMAIN gw_history :
        LET c == gw_history[k] IN
        /\ c.sent = 1
        /\ c.net \in {"refused", "timeout"} =>
              /\ c.op \in {"generate", "chat", "embed"} => c.raised # "None"
              /\ c.op = "check_connection" => (c.raised = "None" /\ c.value = "False")
              /\ c.op = "list_models" => (c.raised = "None" /\ c.value = "[]")

(***************************************************************************)
(* CVPersonalizer.calculate_match_score: the answer parsed into a record.  *)
(***************************************************************************)
\* the score when nothing can be read from the answer
DefaultScore == 50
\* the digits the pattern (\d{1,3})%? takes at most
MaxScoreDigits == 3

\* The answer as tokens [k, digits]: braces, text without digits, a member
\* other than the score, a member "score_total": <number>, a member
\* "score_total": "<text>", a number in the text.  digits are the digits the
\* token shows, in order.
LBrace == [k |-> "{", digits |-> <<>>]
RBrace == [k |-> "}", digits |-> <<>>]
MatchTokens ==
    {LBrace, RBrace, [k |-> "txt", digits |-> <<>>], [k |-> "kv", digits |-> <<>>]}
    \cup { [k |-> "score", digits |-> d] : d \in {<<8, 3>>, <<1, 5, 0>>} }
    \cup { [k |-> "score_str", digits |-> <<8, 3>>] }
    \cup { [k |-> "num", digits |-> d] : d \in {<<7>>, <<2, 5, 0>>, <<1, 0, 0, 0>>} }

MatchResponses == UNION { [1..k -> MatchTokens] : k \in 0..MaxRespLen }

\* int() of a string of digits
DigitsValue(d) ==
    LET val[k \in 0..Len(d)] == IF k = 0 THEN 0 ELSE val[k - 1] * 10 + d[k]
    IN  val[Len(d)]

\* re.search(r'(\d{1,3})%?', response): the first digits of the answer, three
\* at most; <<>> when it has none
FirstDigits(resp) ==
    LET ps == {p \in DOMAIN resp : resp[p].digits # <<>>}
    IN  IF ps = {} THEN <<>>
        ELSE LET d == resp[CHOOSE p \in ps : \A q \in ps : p <= q].digits
             IN  SubSeq(d, 1, Min(Len(d), MaxScoreDigits))

\* no number in the answer: the score is 0
RegexScore_NoDefault(resp) ==
    IF FirstDigits(resp) = <<>> THEN 0 ELSE DigitsValue(FirstDigits(resp))

\* score = int(score_match.group(1)) if score_match else 50
RegexScore(resp) ==
    IF FirstDigits(resp) = <<>> THEN DefaultScore ELSE DigitsValue(FirstDigits(resp))

\* json.loads of a span that starts with "{" and ends with "}": an object
\* when only members stand between the braces, the last member of a name
\* giving its value; else a JSONDecodeError
JsonLoadsScore(span) ==
    LET inner == 2..(Len(span) - 1)
        scores == {p \in inner : span[p].k \in {"score", "score_str"}}
    IN  IF \E p \in inner : span[p].k \notin {"kv", "score", "score_str"}
        THEN [kind |-> "error", score_total |-> 0, raw_response |-> FALSE]
        ELSE IF scores = {}
        THEN [kind |-> "absent", score_total |-> 0, raw_response |-> FALSE]
        ELSE LET last == CHOOSE p \in scores : \A q \in scores : q <= p
             IN  IF span[last].k = "score"
                 THEN [kind |-> "int", score_total |-> DigitsValue(span[last].digits),
                       raw_response |-> FALSE]
                 ELSE [kind |-> "str", score_total |-> 0, raw_response |-> FALSE]

\* calculate_match_score after the gateway call: the span from the first "{"
\* to the last "}" parsed; without such a span the first number of the text,
\* else 50; 50 too when the span does not parse
ParseMatchScore(resp) ==
    LET json_start == Find(resp, LBrace)
        json_end == RFind(resp, RBrace) + 1
    IN  IF json_start # -1 /\ json_end > json_start
        THEN LET loaded == JsonLoadsScore(SubSeq(resp, json_start + 1, json_end))
             IN  IF loaded.kind = "error"
                 THEN [kind |-> "int", score_total |-> DefaultScore, raw_response |-> TRUE]
                 ELSE loaded
        ELSE [kind |-> "int", score_total |-> RegexScore(resp), raw_response |-> TRUE]

InitMatch ==
    /\ mpc = "call"
    /\ m_response = <<>>
    /\ m_result = "None"

\* response = self.ollama.generate(...) returns; the answer is parsed and
\* the record returned
MatchResponse(resp) ==
    /\ mpc = "call"
    /\ m_response' = resp
    /\ m_result' = ParseMatchScore(resp)
    /\ mpc' = "returned"
    /\ UNCHANGED nonMatchVars

\* self.ollama.generate raises, outside the try block
MatchGatewayRaises ==
    /\ mpc = "call"
    /\ mpc' = "raised"
    /\ UNCHANGED <<m_response, m_result>>
    /\ UNCHANGED nonMatchVars

NextMatch ==
    \/ \E resp \in MatchResponses : MatchResponse(resp)
    \/ MatchGatewayRaises

(***************************************************************************)
(* Claims about the match score.                                           *)
(***************************************************************************)
\* the answer has a block from its first "{" to its last "}" that holds only
\* members, the last score member being the number n
StructuredScore(resp, n) ==
    \E i, j \in DOMAIN resp :
        /\ i < j
        /\ resp[i] = LBrace /\ \A p \in 1..(i - 1) : resp[p] # LBrace
        /\ resp[j] = RBrace /\ \A p \in (j + 1)..Len(resp) : resp[p] # RBrace
        /\ \A p \in (i + 1)..(j - 1) : resp[p].k \in {"kv", "score", "score_str"}
        /\ \E p \in (i + 1)..(j - 1) :
              /\ resp[p].k = "score" /\ DigitsValue(resp[p].digits) = n
              /\ \A q \in (p + 1)..(j - 1) : resp[q].k = "kv"

\* the answer has no brace and no digit
Unstructured(resp) ==
    \A p \in DOMAIN resp : resp[p].k \notin {"{", "}"} /\ resp[p].digits = <<>>

\* C14: when the answer holds a block from its first "{" to its last "}"
\* that parses and gives score_total = n, calculate_match_score returns
\* score_total = n; when the answer has no structure and no number, it
\* returns score_total = 50.
C14_MatchScoreParsed ==
    mpc = "returned" =>
        /\ \A n \in {83, 150} :
              StructuredScore(m_response, n) =>
                  (m_result.kind = "int" /\ m_result.score_total = n)
        /\ Unstructured(m_response) =>
              (m_result.kind = "int" /\ m_result.score_total = 50)

\* C14's case: a structured block with score_total 83 between other text.
C14_Witness ==
    /\ mpc = "returned"
    /\ Len(m_response) = 3
    /\ StructuredScore(m_response, 83)
    /\ m_result.score_total = 83

\* C14's other case: a text without braces and numbers, not empty.
C14_WitnessDefault ==
    /\ mpc = "returned"
    /\ Len(m_response) = 2 /\ Unstructured(m_response)
    /\ m_result.score_total = 50

\* the answer has a "}" after its first "{", and the span between them does
\* not parse
SpanDoesNotParse(resp) ==
    LET json_start == Find(resp, LBrace)
        json_end == RFind(resp, RBrace) + 1
    IN  /\ json_start # -1 /\ json_end > json_start
        /\ JsonLoadsScore(SubSeq(resp, json_start + 1, json_end)).kind = "error"

\* C23: when the span from the first "{" to the last "}" of the answer does
\* not parse, calculate_match_score returns as score_total the first number
\* of the text, 50 only if the text has no number, and the raw text is kept
\* in the record.
C23_ParseFailureDegrades ==
    (mpc = "returned" /\ SpanDoesNotParse(m_response)) =>
        /\ m_result.kind = "int"
        /\ m_result.score_total = RegexScore(m_response)
        /\ m_result.raw_response

\* C15: for every answer of the language model the record returned by
\* calculate_match_score holds a score_total, an integer from 0 to 100.
C15_ScoreInRange ==
    mpc = "returned" =>
        /\ m_result.kind = "int"
        /\ m_result.score_total \in 0..100

(***************************************************************************)
(* LinkedInScraper._extract_job_from_card: the posting made of a card.     *)
(***************************************************************************)
\* texts a card can show, as strings of characters
Titles == {<<"a">>, <<"a", "b">>}
Companies == {<<"b">>, <<"c">>}
Urls == {<<>>, <<"u">>}

\* f"{title}{company}{url}" with the time of the extraction put in
IdInput_WithTime(title, company, url, time) == title \o company \o url \o <<time>>

\* f"{title}{company}{url}"
IdInput(title, company, url, time) == title \o company \o url

\* hashlib.md5(text.encode()).hexdigest()[:12]: a value fixed by the text
Md5Hex12(text) == [md5 |-> text]

InitId ==
    /\ extracted = <<>>
    /\ clock = 0

\* a card with a title gives a posting: its identifier, its fields and the
\* time of the extraction; pg is the results page the card was on
ExtractJobFromCard(title, company, url, pg) ==
    /\ Len(extracted) < MaxCards
    /\ clock' = clock + 1
    /\ extracted' = Append(extracted,
          [id |-> Md5Hex12(IdInput(title, company, url, clock)),
           title |-> title, company |-> company, url |-> url,
           scraped_at |-> clock, page |-> pg])
    /\ UNCHANGED nonIdVars

\* a card without title: return None
CardWithoutTitle ==
    /\ Len(extracted) < MaxCards
    /\ clock < MaxCards
    /\ clock' = clock + 1
    /\ UNCHANGED extracted
    /\ UNCHANGED nonIdVars

NextId ==
    \/ \E title \in Titles, company \in Companies, url \in Urls, pg \in 1..MaxPages :
          ExtractJobFromCard(title, company, url, pg)
    \/ CardWithoutTitle

(***************************************************************************)
(* Claims about the identifier of a posting.                               *)
(***************************************************************************)
\* C16: two extractions that give the same title, company and URL give the
\* same identifier, whatever the time of the extraction, the page, and the
\* extractions made before.
C16_IdentifierStable ==
    \A i, j \in DOMAIN extracted :
        (/\ extracted[i].title = extracted[j].title
         /\ extracted[i].company = extracted[j].company
         /\ extracted[i].url = extracted[j].url)
        => extracted[i].id = extracted[j].id

\* C16's case: the same card extracted twice, at different times and on
\* different pages.
C16_Witness ==
    /\ Len(extracted) = 2
    /\ extracted[1].title = extracted[2].title
    /\ extracted[1].company = extracted[2].company
    /\ extracted[1].url = extracted[2].url
    /\ extracted[1].scraped_at # extracted[2].scraped_at
    /\ extracted[1].page # extracted[2].page

(***************************************************************************)
(* ProfileManager.validate_profile and Experience.duration_months.         *)
(***************************************************************************)
\* required_personal
RequiredPersonal == <<"nombre", "apellidos", "email", "telefono">>
\* the fields looked at in each experience entry
RequiredExperience == <<"puesto", "empresa", "responsabilidades">>

\* what a key of the YAML document holds: nothing (the key is absent), an
\* empty value ('' or []), or a value
FieldValues == {"absent", "empty", "value"}

\* "not x" for a field: absent and empty values are false
Truthy(v) == v = "value"

\* A section of the document by its shape: the key is absent, the key has no
\* value (YAML gives None), or it holds a mapping / a list.
PersonalSections ==
    { [shape |-> sh, fields |-> [f \in {"nombre", "apellidos", "email", "telefono"} |-> "absent"]] :
        sh \in {"absent", "null"} }
    \cup { [shape |-> "dict", fields |-> fs] :
            fs \in [{"nombre", "apellidos", "email", "telefono"} -> FieldValues] }

EducationSections == {"absent", "null", "empty", "list"}

ExperienceEntryDocs ==
    [{"puesto", "empresa", "responsabilidades"} -> {"absent", "value"}]

ExperienceSections ==
    { [shape |-> sh, entries |-> <<>>] : sh \in {"absent", "null", "list"} }
    \cup { [shape |-> "list", entries |-> es] :
            es \in UNION { [1..k -> ExperienceEntryDocs] : k \in 1..MaxEntries } }

SkillSections ==
    { [shape |-> sh, lenguajes |-> "absent"] : sh \in {"absent", "null"} }
    \cup { [shape |-> "dict", lenguajes |-> v] : v \in FieldValues }

ProfileDocs ==
    [personal_information : PersonalSections, educacion : EducationSections,
     experiencia : ExperienceSections, habilidades_tecnicas : SkillSections]

Issue(kind, field, index) == [kind |-> kind, field |-> field, index |-> index]

\* for field in required_personal: if not personal.get(field): issues.append(...)
PersonalIssues(personal) ==
    LET cand == [k \in DOMAIN RequiredPersonal |-> Issue("falta_campo", RequiredPersonal[k], 0)]
        Missing(c) == ~Truthy(personal.fields[c.field])
    IN  SelectSeq(cand, Missing)

\* if not educacion: issues.append("No hay entradas de educación")
EducationIssues(educacion) ==
    IF educacion = "list" THEN <<>> ELSE <<Issue("sin_educacion", "", 0)>>

\* if not experiencia: one issue; else, for each entry, one issue for each of
\* puesto, empresa, responsabilidades it lacks
ExperienceIssues(experiencia) ==
    IF experiencia.entries = <<>>
    THEN <<Issue("sin_experiencia", "", 0)>>
    ELSE LET n == Len(RequiredExperience)
             cand == [k \in 1..(n * Len(experiencia.entries)) |->
                        Issue("experiencia", RequiredExperience[((k - 1) % n) + 1],
                              ((k - 1) \div n) + 1)]
             Missing(c) == ~Truthy(experiencia.entries[c.index][c.field])
         IN  SelectSeq(cand, Missing)

\* if not habilidades.get('lenguajes'): issues.append(...)
SkillIssues(habilidades) ==
    IF Truthy(habilidades.lenguajes) THEN <<>> ELSE <<Issue("sin_lenguajes", "", 0)>>

\* validate_profile: profile.get(section, {}) gives None for a section
\* without value, and None.get raises AttributeError
ValidateProfile(doc) ==
    IF doc.personal_information.shape = "null" \/ doc.habilidades_tecnicas.shape = "null"
    THEN [raised |-> "AttributeError", issues |-> <<>>]
    ELSE [raised |-> "None",
          issues |-> PersonalIssues(doc.personal_information)
                     \o EducationIssues(doc.educacion)
                     \o ExperienceIssues(doc.experiencia)
                     \o SkillIssues(doc.habilidades_tecnicas)]

\* "%Y-%m" strings: a date, a text strptime rejects, or no value
Years == {2020, 2021}
Months == {1, 12}
Dates == [kind : {"date"}, year : Years, month : Months]
NoDate == [kind |-> "None", year |-> 0, month |-> 0]
BadDate == [kind |-> "invalid", year |-> 0, month |-> 0]

ExperienceDates ==
    [fecha_inicio : Dates \cup {BadDate}, fecha_fin : Dates \cup {BadDate, NoDate}]

\* Experience.duration_months; now is datetime.now(); any exception gives 0
DurationMonths(entry, now) ==
    IF entry.fecha_inicio.kind # "date" THEN 0
    ELSE IF entry.fecha_fin.kind = "invalid" THEN 0
    ELSE LET start == entry.fecha_inicio
             end == IF entry.fecha_fin.kind = "date" THEN entry.fecha_fin ELSE now
         IN  (end.year - start.year) * 12 + (end.month - start.month)

InitPm ==
    /\ pm_pc = "start"
    /\ v_profile = "None"
    /\ v_result = "None"
    /\ d_entry = "None"
    /\ d_months = 0

\* validate_profile(profile) is called and returns or raises
Validate(doc) ==
    /\ pm_pc = "start"
    /\ v_profile' = doc
    /\ v_result' = ValidateProfile(doc)
    /\ pm_pc' = "validated"
    /\ UNCHANGED <<d_entry, d_months>>
    /\ UNCHANGED nonPmVars

\* exp.duration_months is read
Measure(entry, now) ==
    /\ pm_pc = "start"
    /\ d_entry' = entry
    /\ d_months' = DurationMonths(entry, now)
    /\ pm_pc' = "measured"
    /\ UNCHANGED <<v_profile, v_result>>
    /\ UNCHANGED nonPmVars

NextPm ==
    \/ \E doc \in ProfileDocs : Validate(doc)
    \/ \E entry \in ExperienceDates, now \in Dates : Measure(entry, now)

(***************************************************************************)
(* Claims about the profile manager.                                       *)
(***************************************************************************)
\* the document lacks the field of personal_information, or holds an empty
\* value for it
LacksPersonal(doc, f) ==
    doc.personal_information.shape # "dict" \/ ~Truthy(doc.personal_information.fields[f])

\* all four fields, an education entry, experience entries each with
\* position, company and responsibilities, and a language
Complete(doc) ==
    /\ \A k \in DOMAIN RequiredPersonal : ~LacksPersonal(doc, RequiredPersonal[k])
    /\ doc.educacion = "list"
    /\ doc.experiencia.entries # <<>>
    /\ \A i \in DOMAIN doc.experiencia.entries :
          \A k \in DOMAIN RequiredExperience :
              Truthy(doc.experiencia.entries[i][RequiredExperience[k]])
    /\ doc.habilidades_tecnicas.shape = "dict"
    /\ Truthy(doc.habilidades_tecnicas.lenguajes)

\* C17: for every profile that lacks, or holds an empty value for, any of
\* nombre, apellidos, email, telefono, validate_profile returns a list that
\* is not empty and holds one issue naming each such field; for a complete
\* profile it returns the empty list.
C17_ValidateProfile ==
    pm_pc = "validated" =>
        /\ \A k \in DOMAIN RequiredPersonal :
              LacksPersonal(v_profile, RequiredPersonal[k]) =>
                  /\ v_result.raised = "None"
                  /\ Cardinality({p \in DOMAIN v_result.issues :
                        v_result.issues[p] = Issue("falta_campo", RequiredPersonal[k], 0)}) = 1
        /\ Complete(v_profile) =>
              (v_result.raised = "None" /\ v_result.issues = <<>>)

\* C18: for an entry with an end date, duration_months is
\* (end.year - start.year) * 12 + (end.month - start.month), and 0 when that
\* is negative: an entry that ends before it starts has duration 0.
C18_DurationClamped ==
    (/\ pm_pc = "measured"
     /\ d_entry.fecha_inicio.kind = "date"
     /\ d_entry.fecha_fin.kind = "date") =>
        LET diff == (d_entry.fecha_fin.year - d_entry.fecha_inicio.year) * 12
                    + (d_entry.fecha_fin.month - d_entry.fecha_inicio.month)
        IN  d_months = IF diff < 0 THEN 0 ELSE diff

(***************************************************************************)
(* LinkedInScraper.login.                                                  *)
(***************************************************************************)
InitLogin ==
    /\ lpc = "start"
    /\ driver = "None"
    /\ l_selenium \in BOOLEAN
    /\ l_credentials = "None"
    /\ is_logged_in = FALSE
    /\ l_returns = <<>>

\* login ends: what it returned, or that it raised, is noted
LoginEnds(outcome) ==
    /\ l_returns' = Append(l_returns, outcome)
    /\ lpc' = IF outcome = "raised" THEN "raised" ELSE "returned"

\* login(email, password) is called: the credentials are given, are in the
\* configuration, or are nowhere; if not self.driver: self._init_driver()
LoginEnter(credentials) ==
    /\ lpc = "start"
    /\ l_credentials' = credentials
    /\ lpc' = IF driver = "None" THEN "init_driver" ELSE "credentials"
    /\ UNCHANGED <<driver, l_selenium, is_logged_in, l_returns>>
    /\ UNCHANGED nonLoginVars

\* _init_driver returns with self.driver set
LoginDriverReady ==
    /\ lpc = "init_driver" /\ l_selenium
    /\ driver' = "open"
    /\ lpc' = "credentials"
    /\ UNCHANGED <<l_selenium, l_credentials, is_logged_in, l_returns>>
    /\ UNCHANGED nonLoginVars

\* self._init_driver() is called before the try block of login: what it
\* raises leaves login
OnInitDriverError == LoginEnds("raised")

\* _init_driver raises: ImportError without Selenium; else the driver
\* manager or Chrome (self.driver not assigned) or the script run after the
\* assignment (self.driver assigned)
LoginInitDriverRaises(assigned) ==
    /\ lpc = "init_driver"
    /\ ~l_selenium => ~assigned
    /\ driver' = IF assigned THEN "open" ELSE driver
    /\ OnInitDriverError
    /\ UNCHANGED <<l_selenium, l_credentials, is_logged_in>>
    /\ UNCHANGED nonLoginVars

\* if not email or not password: return False
LoginNoCredentials ==
    /\ lpc = "credentials" /\ l_credentials = "None"
    /\ LoginEnds("False")
    /\ UNCHANGED <<driver, l_selenium, l_credentials, is_logged_in>>
    /\ UNCHANGED nonLoginVars

\* the try block is entered: the login page, the form, the click
LoginSubmit ==
    /\ lpc = "credentials" /\ l_credentials # "None"
    /\ lpc' = "submitted"
    /\ UNCHANGED <<driver, l_selenium, l_credentials, is_logged_in, l_returns>>
    /\ UNCHANGED nonLoginVars

\* except TimeoutException: return False (no form, or no navigation bar
\* within the wait)
LoginTimeout ==
    /\ lpc \in {"credentials", "submitted"} /\ l_credentials # "None"
    /\ LoginEnds("False")
    /\ UNCHANGED <<driver, l_selenium, l_credentials, is_logged_in>>
    /\ UNCHANGED nonLoginVars

\* except Exception: return False
LoginException ==
    /\ lpc \in {"credentials", "submitted"} /\ l_credentials # "None"
    /\ LoginEnds("False")
    /\ UNCHANGED <<driver, l_selenium, l_credentials, is_logged_in>>
    /\ UNCHANGED nonLoginVars

\* the navigation bar is there: self.is_logged_in = True; return True
LoginSucceeds ==
    /\ lpc = "submitted"
    /\ is_logged_in' = TRUE
    /\ LoginEnds("True")
    /\ UNCHANGED <<driver, l_selenium, l_credentials>>
    /\ UNCHANGED nonLoginVars

\* the caller calls login again on the same scraper
LoginAgain ==
    /\ lpc \in {"returned", "raised"}
    /\ Len(l_returns) < MaxLogins
    /\ lpc' = "start"
    /\ UNCHANGED <<driver, l_selenium, l_credentials, is_logged_in, l_returns>>
    /\ UNCHANGED nonLoginVars

NextLogin ==
    \/ \E credentials \in {"None", "arguments", "config"} : LoginEnter(credentials)
    \/ LoginDriverReady
    \/ \E assigned \in BOOLEAN : LoginInitDriverRaises(assigned)
    \/ LoginNoCredentials
    \/ LoginSubmit
    \/ LoginTimeout
    \/ LoginException
    \/ LoginSucceeds
    \/ LoginAgain

(***************************************************************************)
(* Claims about login.                                                     *)
(***************************************************************************)
\* C19: login never raises: a timeout or any exception in the login flow,
\* the creation of the browser session on first use included, makes it
\* return False; and is_logged_in is True only after a login that returned
\* True.
C19_LoginNeverRaises ==
    /\ \A k \in DOMAIN l_returns : l_returns[k] \in {"True", "False"}
    /\ is_logged_in => \E k \in DOMAIN l_returns : l_returns[k] = "True"

(***************************************************************************)
(* LinkedInScraper._extract_job_from_card, field by field.                 *)
(***************************************************************************)
\* the selectors tried for one field of a card (the code has 6, 4 and 3)
MaxSelectors == 2

\* the text of an element after strip(): empty, or some text
Texts == {<<>>, <<"t">>}

\* card.find_element(By.CSS_SELECTOR, selector): it raises, or it gives an
\* element with its text
NoElement == [found |-> FALSE, text |-> <<>>]
Elements == {NoElement} \cup [found : {TRUE}, text : Texts]

\* the selectors of one field, in the order of the list
SelectorResults == [1..MaxSelectors -> Elements]

\* the first <a> of the card: find_element raises, or gives its aria-label,
\* its text and its href
NoLink == [found |-> FALSE, aria |-> <<>>, text |-> <<>>, href |-> <<>>]
Links == {NoLink} \cup [found : {TRUE}, aria : Texts, text : Texts, href : {<<"u">>}]

CardsOfPage == [title : SelectorResults, company : SelectorResults,
                location : SelectorResults, link : Links]

\* "Empresa no especificada" / "Ubicación no especificada", and None
NotSpecified == <<"n", "s">>
None == <<>>

\* for selector in selectors: try: elem = card.find_element(...);
\* value = elem.text.strip(); if value: break; except: continue
RECURSIVE SelectorLoop(_, _)
SelectorLoop(value, elems) ==
    IF elems = <<>> THEN value
    ELSE IF ~Head(elems).found THEN SelectorLoop(value, Tail(elems))
    ELSE IF Head(elems).text # <<>> THEN Head(elems).text
    ELSE SelectorLoop(Head(elems).text, Tail(elems))

\* the title: the selectors, then aria-label or text of the link
CardTitle(c) ==
    LET title == SelectorLoop(None, c.title)
    IN  IF title # <<>> THEN title
        ELSE IF ~c.link.found THEN title
        ELSE IF c.link.aria # <<>> THEN c.link.aria ELSE c.link.text

\* url = link_elem.get_attribute("href"), or "" when find_element raises
CardUrl(c) == IF c.link.found THEN c.link.href ELSE <<>>

NoPosting == [none |-> TRUE]

\* _extract_job_from_card(card): None without title, else the posting
ExtractFields(c) ==
    IF CardTitle(c) = <<>> THEN NoPosting
    ELSE [none |-> FALSE,
          title |-> CardTitle(c),
          company |-> SelectorLoop(NotSpecified, c.company),
          location |-> SelectorLoop(NotSpecified, c.location),
          url |-> CardUrl(c)]

NoCard == [title |-> [i \in 1..MaxSelectors |-> NoElement],
           company |-> [i \in 1..MaxSelectors |-> NoElement],
           location |-> [i \in 1..MaxSelectors |-> NoElement],
           link |-> NoLink]

InitCard ==
    /\ cpc = "start"
    /\ card = NoCard
    /\ posting = NoPosting

\* job_data = self._extract_job_from_card(card)
ExtractCard(c) ==
    /\ cpc = "start"
    /\ card' = c
    /\ posting' = ExtractFields(c)
    /\ cpc' = "extracted"
    /\ UNCHANGED nonCardVars

\* the for loop goes on: card and job_data are bound anew
AnotherCard ==
    /\ cpc = "extracted"
    /\ cpc' = "start"
    /\ card' = NoCard
    /\ posting' = NoPosting
    /\ UNCHANGED nonCardVars

NextCard ==
    \/ \E c \in CardsOfPage : ExtractCard(c)
    \/ AnotherCard

(***************************************************************************)
(* Claims about the fields of a posting.                                   *)
(***************************************************************************)
\* C22: a card for which no selector yields a title gives no posting, so a
\* posting has a non-empty title; and the company and the location of every
\* posting are non-empty, each the text a selector found or the "not
\* specified" placeholder, also when a selector matches an element whose
\* text is empty.
C22_FieldsNonEmpty ==
    cpc = "extracted" =>
        IF posting.none
        THEN \A i \in DOMAIN card.title :
                 ~(card.title[i].found /\ card.title[i].text # <<>>)
        ELSE /\ posting.title # <<>>
             /\ posting.company # <<>>
             /\ posting.location # <<>>

(***************************************************************************)
(* LinkedInScraper._get_job_description: the text of a posting's page.     *)
(***************************************************************************)
\* the elements of one kind a page holds at most
MaxElems == 2
\* if len(description) < 100: the search is broadened
BroadenBelow == 100
\* if len(text) > 200 and len(text) < 5000
BandMin == 200
BandMax == 5000

\* elem.text.strip() of an element, as its length and whether it holds one
\* of the keywords of the tier
NoText == [len |-> 0, kw |-> FALSE]
ContainerTexts == [len : {0, 60, 150}, kw : {FALSE}]
SectionTexts == [len : {60, 300}, kw : BOOLEAN]
DivTexts == [len : {BandMin, 300, 400, BandMax + 1}, kw : BOOLEAN]

\* a page: the elements the description selectors find, its sections and
\* its divs, in document order
JobPages ==
    [containers : UNION { [1..k -> ContainerTexts] : k \in 0..1 },
     sections : UNION { [1..k -> SectionTexts] : k \in 0..MaxElems },
     divs : UNION { [1..k -> DivTexts] : k \in 0..MaxElems }]

\* for elem in elements: if text and len(text) > len(description):
\* description = text
RECURSIVE Longest(_, _)
Longest(description, texts) ==
    IF texts = <<>> THEN description
    ELSE Longest(IF Head(texts).len > description.len THEN Head(texts) ELSE description,
                 Tail(texts))

HasKeyword(text) == text.kw

\* for section in sections: if any(kw in text.lower() ...) and
\* len(text) > len(description): description = text
SectionTier(description, sections) ==
    Longest(description, SelectSeq(sections, HasKeyword))

\* for div in all_divs: the first div in the band with a keyword and longer
\* than description is taken; break
RECURSIVE DivTier(_, _)
DivTier(description, divs) ==
    IF divs = <<>> THEN description
    ELSE LET text == Head(divs)
         IN  IF /\ text.len > BandMin /\ text.len < BandMax
                /\ text.kw
                /\ text.len > description.len
             THEN text
             ELSE DivTier(description, Tail(divs))

\* _get_job_description without an exception: the three tiers, then the
\* text when longer than 50 characters, else the placeholder
GetJobDescription(pg) ==
    LET tier1 == Longest(NoText, pg.containers)
        tier2 == IF tier1.len < BroadenBelow THEN SectionTier(tier1, pg.sections) ELSE tier1
        tier3 == IF tier2.len < BroadenBelow THEN DivTier(tier2, pg.divs) ELSE tier2
    IN  IF tier3.len > MinDescLen
        THEN [kind |-> "browser", len |-> tier3.len]
        ELSE DescNoDisponibleVisita

NoPage == [containers |-> <<>>, sections |-> <<>>, divs |-> <<>>]

InitDesc ==
    /\ bpc = "start"
    /\ b_page = NoPage
    /\ b_description = DescAbsent

\* _get_job_description(job_url) on a page that loads
DescribePage(pg) ==
    /\ bpc = "start"
    /\ b_page' = pg
    /\ b_description' = GetJobDescription(pg)
    /\ bpc' = "returned"
    /\ UNCHANGED nonDescVars

\* except Exception: return "Descripción no disponible"
DescribeRaises ==
    /\ bpc = "start"
    /\ b_description' = DescNoDisponible
    /\ bpc' = "caught"
    /\ UNCHANGED b_page
    /\ UNCHANGED nonDescVars

NextDesc ==
    \/ \E pg \in JobPages : DescribePage(pg)
    \/ DescribeRaises

(***************************************************************************)
(* Claims about the browser-driven extraction.                             *)
(***************************************************************************)
\* the texts of the sections and divs of a page that hold a keyword and
\* whose length lies in the band, the ends of the band left out as line 688
\* leaves them out
Qualifying(pg) ==
    { t \in {pg.sections[i] : i \in DOMAIN pg.sections}
              \cup {pg.divs[i] : i \in DOMAIN pg.divs} :
        t.kw /\ t.len > BandMin /\ t.len < BandMax }

\* C25: when the container selectors give a text that is too short,
\* _get_job_description returns the longest of the sections and divs that
\* hold a keyword and lie in the length band, not the first found, and the
\* "not available" placeholder when no section or div qualifies.
C25_LongestQualifying ==
    (bpc = "returned" /\ Longest(NoText, b_page.containers).len < BroadenBelow) =>
        IF Qualifying(b_page) = {}
        THEN b_description = DescNoDisponibleVisita
        ELSE /\ b_description.kind = "browser"
             /\ \A t \in Qualifying(b_page) : t.len <= b_description.len

(***************************************************************************)
(* Claims about the dashboard.                                             *)
(***************************************************************************)
\* C26: a start request rejected because a task is active leaves
\* current_task, task_progress, task_message and task_logs as they are;
\* task_progress goes back to 0 and task_logs is emptied only by the handler
\* of an accepted start request.
C26_RejectedStartChangesNothing ==
    [][/\ (loop.pc = "idle" /\ TaskActive /\ UNCHANGED <<loop, pending, workers>>)
            => UNCHANGED <<current_task, task_progress, task_message, task_logs>>
       /\ (task_progress # 0 /\ task_progress' = 0) => loop.pc = "set_progress"
       /\ (task_logs # <<>> /\ task_logs' = <<>>) => loop.pc = "set_logs"]_vars

\* C26's case: a start request was rejected while the task it met is
\* running, with progress made and lines logged.
C26_Witness ==
    /\ last_response.status = 400
    /\ current_task # "None" /\ last_response.seen = current_task
    /\ task_progress > 0 /\ task_logs # <<>>

\* start requests accepted and not yet finished: a handler past its guard, a
\* background task waiting for its thread, a thread before the end of its
\* finally clause
ActiveTasks ==
    Cardinality({w \in DOMAIN workers : workers[w].pc # "ended"})
        + Len(pending) + (IF loop.pc = "idle" THEN 0 ELSE 1)

\* C1: at most one background task (search or generate) is active at any
\* time, under every interleaving of start requests and worker threads; a
\* start request whose handler reads a set current_task is answered 400 and
\* one answered 200 read None, so no second worker is started.
C1_SingleActiveTask ==
    /\ ActiveTasks <= 1
    /\ last_response.status = 400 => last_response.seen # "None"
    /\ last_response.status = 200 => last_response.seen = "None"

\* C1's case: a start request was rejected while a worker thread is running.
C1_Witness ==
    /\ last_response.status = 400
    /\ \E w \in DOMAIN workers : workers[w].pc = "try" /\ workers[w].ip > 3

AllEnded ==
    /\ loop.pc = "idle"
    /\ pending = <<>>
    /\ \A w \in DOMAIN workers : workers[w].pc = "ended"

SameIdentifiers ==
    /\ Len(returned) = Len(jobs)
    /\ \A i \in DOMAIN jobs : jobs[returned[i]].id = jobs[i].id

\* C3: _fetch_descriptions_parallel preserves the input order: for every
\* input list and every completion order of the futures, the returned list
\* has the length of the input and holds at each index a posting with the
\* identifier of the input posting at that index.
C3_OrderPreserved == fpc = "returned" => SameIdentifiers

\* C3's case: two postings with different identifiers came back from the pool
\* in the reverse of the input order, and the list has been returned.
C3_Witness ==
    /\ fpc = "returned"
    /\ Len(jobs) = 2 /\ jobs[1].id # jobs[2].id
    /\ results = <<2, 1>>

\* pool threads inside self._get_job_description, which drives self.driver
BrowserUsers == {i \in DOMAIN fut : fut[i] = "browser"}

\* C4: the browser session is never used by the parallel-fetch worker pool,
\* so in no reachable state do two pool workers use the driver at the same
\* time.  (Stated by its conclusion; its premise, that no pool worker calls
\* the driver at all, fails one step sooner.)
C4_DriverNotSharedByPool == Cardinality(BrowserUsers) <= 1

\* C6: after _fetch_descriptions_parallel returns, every posting of the
\* result has a description that is present and not empty; a posting whose
\* HTTP extraction was too short while no browser session exists holds the
\* "Descripción no disponible" placeholder.
C6_DescriptionNeverEmpty ==
    fpc = "returned" =>
        /\ \A i \in DOMAIN returned :
              /\ jobs[returned[i]].description.kind # "absent"
              /\ jobs[returned[i]].description.len > 0
        /\ \A i \in DOMAIN jobs :
              (/\ http_outcome[i].st = "ok"
               /\ http_outcome[i].len <= MinDescLen
               /\ driver = "None") => jobs[i].description = DescNoDisponible

\* C6's case: the extraction of a posting gave nothing, there is no browser
\* session, and the list has been returned.
C6_Witness ==
    /\ fpc = "returned"
    /\ driver = "None"
    /\ \E i \in DOMAIN jobs : http_outcome[i] = [st |-> "ok", len |-> 0]

IdleDash == InitDash

IdleSearch ==
    /\ caller = "None" /\ spc = "idle"
    /\ selenium_available = TRUE /\ use_existing_browser = FALSE
    /\ limit = 0 /\ njobs = 0 /\ page = 0
    /\ opened = FALSE /\ close_called = FALSE /\ saved = 0 /\ added = 0
    /\ mode = "fast" /\ nourl = 0 /\ described = 0 /\ caught = FALSE

IdlePers ==
    /\ ppc = "idle" /\ stage = 0 /\ reanalyzed = FALSE
    /\ generate_cover_letter = FALSE
    /\ job_analysis = [kind |-> "None", raw |-> <<>>]
    /\ calls = <<>> /\ failed_at = 0 /\ result = "None"
    /\ profile = [experiencia |-> <<>>] /\ profile_before = profile
    /\ experience = "None"

IdleGen ==
    /\ gpc = "idle" /\ output_format = "pdf" /\ include_cover_letter = FALSE
    /\ cover_letter = FALSE /\ pdf_generated = FALSE /\ tried = <<>>
    /\ files = {} /\ glog = <<>>
    /\ gresult = [cv |-> "None", cover_letter |-> "None"]
    /\ profile_exists = FALSE /\ job_id = <<>> /\ stored = {}
    /\ job = "None" /\ gerror = "None" /\ gateway_used = FALSE

IdleGw == InitGw

IdleMatch ==
    /\ mpc = "idle" /\ m_response = <<>> /\ m_result = "None"

IdleId ==
    /\ extracted = <<>> /\ clock = 0

IdlePm ==
    /\ pm_pc = "idle" /\ v_profile = "None" /\ v_result = "None"
    /\ d_entry = "None" /\ d_months = 0

IdleLogin ==
    /\ lpc = "idle" /\ l_selenium = FALSE /\ l_credentials = "None"
    /\ is_logged_in = FALSE /\ l_returns = <<>>

IdleCard ==
    /\ cpc = "idle" /\ card = NoCard /\ posting = NoPosting

IdleDesc ==
    /\ bpc = "idle" /\ b_page = NoPage /\ b_description = DescAbsent

IdleFetchOnly ==
    /\ jobs = <<>> /\ max_workers = DefaultMaxWorkers
    /\ fut = <<>> /\ http_gets = <<>> /\ http_outcome = <<>>
    /\ results = <<>> /\ returned = <<>> /\ fpc = "idle"

IdleFetch ==
    /\ jobs = <<>> /\ driver = "None" /\ max_workers = DefaultMaxWorkers
    /\ fut = <<>> /\ http_gets = <<>> /\ http_outcome = <<>>
    /\ results = <<>> /\ returned = <<>> /\ fpc = "idle"

\* the dashboard
Next == NextDash

Init ==
    InitDash /\ IdleFetch /\ IdleSearch /\ IdlePers /\ IdleGen /\ IdleGw /\ IdleMatch /\ IdleId /\ IdlePm /\ IdleLogin /\ IdleCard /\ IdleDesc

Spec == Init /\ [][Next]_vars

\* The event loop runs a ready handler or background task, and a started
\* thread keeps running: every call it makes returns or raises.
FairSpec ==
    /\ Spec
    /\ WF_vars(LoopStep)
    /\ \A w \in 1..MaxTasks : WF_vars(WorkerStep(w))

\* the parallel description fetch
InitFetchSpec ==
    InitFetch /\ IdleDash /\ IdleSearch /\ IdlePers /\ IdleGen /\ IdleGw /\ IdleMatch /\ IdleId /\ IdlePm /\ IdleLogin /\ IdleCard /\ IdleDesc

SpecFetch == InitFetchSpec /\ [][NextFetch]_vars

\* one search operation and its browser session
InitSearchSpec ==
    InitSearch /\ IdleDash /\ IdleFetchOnly /\ IdlePers /\ IdleGen /\ IdleGw /\ IdleMatch /\ IdleId /\ IdlePm /\ IdleLogin /\ IdleCard /\ IdleDesc

SpecSearch == InitSearchSpec /\ [][NextSearch]_vars

\* one call of personalize_cv
InitPersSpec ==
    InitPers /\ IdleDash /\ IdleFetch /\ IdleSearch /\ IdleGen /\ IdleGw /\ IdleMatch /\ IdleId /\ IdlePm /\ IdleLogin /\ IdleCard /\ IdleDesc

SpecPers == InitPersSpec /\ [][NextPers]_vars

\* one call of generate
InitGenSpec ==
    InitGen /\ IdleDash /\ IdleFetch /\ IdleSearch /\ IdlePers /\ IdleGw /\ IdleMatch /\ IdleId /\ IdlePm /\ IdleLogin /\ IdleCard /\ IdleDesc

SpecGen == InitGenSpec /\ [][NextGen]_vars

\* calls of the gateway, one after the other
InitGwSpec ==
    InitGw /\ IdleDash /\ IdleFetch /\ IdleSearch /\ IdlePers /\ IdleGen /\ IdleMatch /\ IdleId /\ IdlePm /\ IdleLogin /\ IdleCard /\ IdleDesc

SpecGw == InitGwSpec /\ [][NextGw]_vars

\* one call of calculate_match_score
InitMatchSpec ==
    InitMatch /\ IdleDash /\ IdleFetch /\ IdleSearch /\ IdlePers /\ IdleGen /\ IdleGw /\ IdleId /\ IdlePm /\ IdleLogin /\ IdleCard /\ IdleDesc

SpecMatch == InitMatchSpec /\ [][NextMatch]_vars

\* card extractions, one after the other
InitIdSpec ==
    InitId /\ IdleDash /\ IdleFetch /\ IdleSearch /\ IdlePers /\ IdleGen /\ IdleGw /\ IdleMatch /\ IdlePm /\ IdleLogin /\ IdleCard /\ IdleDesc

SpecId == InitIdSpec /\ [][NextId]_vars

\* one call of validate_profile or of duration_months
InitPmSpec ==
    InitPm /\ IdleDash /\ IdleFetch /\ IdleSearch /\ IdlePers /\ IdleGen /\ IdleGw /\ IdleMatch /\ IdleId /\ IdleLogin /\ IdleCard /\ IdleDesc

SpecPm == InitPmSpec /\ [][NextPm]_vars

\* calls of login on one scraper
InitLoginSpec ==
    InitLogin /\ IdleDash /\ IdleFetchOnly /\ IdleSearch /\ IdlePers /\ IdleGen /\ IdleGw /\ IdleMatch /\ IdleId /\ IdlePm /\ IdleCard /\ IdleDesc

SpecLogin == InitLoginSpec /\ [][NextLogin]_vars

\* the fields _extract_job_from_card reads from a card
InitCardSpec ==
    InitCard /\ IdleDash /\ IdleFetch /\ IdleSearch /\ IdlePers /\ IdleGen /\ IdleGw /\ IdleMatch /\ IdleId /\ IdleLogin /\ IdlePm /\ IdleDesc

SpecCard == InitCardSpec /\ [][NextCard]_vars

\* the text _get_job_description takes from a page
InitDescSpec ==
    InitDesc /\ IdleDash /\ IdleFetch /\ IdleSearch /\ IdlePers /\ IdleGen /\ IdleGw /\ IdleMatch /\ IdleCard /\ IdleId /\ IdleLogin /\ IdlePm

SpecDesc == InitDescSpec /\ [][NextDesc]_vars

====
